---- MODULE Spec2Model ----
(***************************************************************************)
(* RouteForge: the redirect gate (GET|HEAD /r/{slug}) with its two rate    *)
(* limiters, the in-process background task queue, the webhook dispatcher, *)
(* route creation (POST /api/routes), the referrer functions of            *)
(* utils/enrich.py, and concurrent request threads on one token bucket.    *)
(*                                                                         *)
(* Text is modelled as a sequence of lexical tokens ("https", ":", "//",   *)
(* "Example.COM", ":80", "/x", ...), so that parsing, normalising and      *)
(* re-assembling a URL are real computations on the text.  Monotonic time  *)
(* is an integer number of seconds; the float token count of a bucket is   *)
(* kept exactly, in units of 1/TokenScale token.                           *)
(***************************************************************************)
EXTENDS Integers, Sequences, FiniteSets, TLC

\* ------------------------------------------------------------------------
\* Bounds of the model
\* ------------------------------------------------------------------------
MaxTime == 2
MaxReq == 3
MaxProbes == 4
MaxHits == 1
MaxEnvChanges == 1
MaxSubmits == 3
QueueSize == 2
MaxEvents == 2
MaxDeletes == 1
MaxJobs == 2
MaxCreates == 2
MaxBlockChanges == 1
MaxVisits == 2
MaxThreads == 2

\* ------------------------------------------------------------------------
\* Text helpers (str.lower, str.strip, urllib.parse)
\* ------------------------------------------------------------------------
None == "None"

SchemeToks == {"https", "HTTPS", "http", "javascript", "ftp"}
HostToks == {"example.com", "Example.COM", "api.example.com", "other.org"}
PortToks == {":80"}
SlashToks == {"/", "/x", "//"}

\* str.lower() on one token
LowerTok(t) ==
    CASE t = "HTTPS" -> "https"
      [] t = "HTTP" -> "http"
      [] t = "Example.COM" -> "example.com"
      [] t = "UTM_SOURCE" -> "utm_source"
      [] t = "Promo" -> "promo"
      [] t = "PROMO" -> "promo"
      [] OTHER -> t

Lower(s) == [i \in 1..Len(s) |-> LowerTok(s[i])]

RECURSIVE LStrip(_)
LStrip(s) == IF s # <<>> /\ Head(s) = " " THEN LStrip(Tail(s)) ELSE s

RECURSIVE RStrip(_)
RStrip(s) ==
    IF s # <<>> /\ s[Len(s)] = " " THEN RStrip(SubSeq(s, 1, Len(s) - 1)) ELSE s

\* str.strip()
Strip(s) == RStrip(LStrip(s))

\* length of the longest prefix of s that holds no token starting with "/"
RECURSIVE NetlocLen(_)
NetlocLen(s) ==
    IF s = <<>> \/ Head(s) \in SlashToks THEN 0 ELSE 1 + NetlocLen(Tail(s))

\* urllib.parse.urlparse: scheme (lower-cased), netloc, path
urlparse(s) ==
    LET hasScheme == Len(s) >= 2 /\ s[1] \in SchemeToks /\ s[2] = ":"
        scheme == IF hasScheme THEN LowerTok(s[1]) ELSE ""
        rest == IF hasScheme THEN SubSeq(s, 3, Len(s)) ELSE s
        hasNetloc == rest # <<>> /\ Head(rest) = "//"
        n == IF hasNetloc THEN NetlocLen(Tail(rest)) ELSE 0
    IN  [scheme |-> scheme,
         netloc |-> IF hasNetloc THEN SubSeq(rest, 2, n + 1) ELSE <<>>,
         path |-> IF hasNetloc THEN SubSeq(rest, n + 2, Len(rest)) ELSE rest]

\* urllib.parse.urlunparse for a URL with a netloc
urlunparse(p) == <<p.scheme, ":", "//">> \o p.netloc \o p.path

\* ParseResult.hostname: the netloc without userinfo and port
hostname(netloc) == SelectSeq(netloc, LAMBDA t : t \in HostToks)

SeqToSet(s) == {s[i] : i \in 1..Len(s)}

\* ------------------------------------------------------------------------
\* app/utils/validators.py
\* ------------------------------------------------------------------------
Invalid == <<"ValueError">>

_normalize_allowed_schemes(allowed) ==
    LET normalized == SelectSeq(Lower(allowed), LAMBDA t : t # "" /\ t # " ")
    IN  IF normalized # <<>> THEN normalized ELSE <<"https", "http">>

_default_scheme(allowed) == IF allowed # <<>> THEN allowed[1] ELSE "https"

\* validate_target_url that takes a text for a URL with a scheme only when it
\* holds "//"
validate_target_url_needs_slashes(url, allowed) ==
    LET value == Strip(url)
        allowed_schemes == _normalize_allowed_schemes(allowed)
        parsed == IF "//" \in SeqToSet(value) THEN urlparse(value)
                  ELSE [scheme |-> "", netloc |-> <<>>, path |-> value]
        default_scheme == _default_scheme(allowed_schemes)
        effective_parsed ==
            IF parsed.scheme = ""
            THEN urlparse(<<default_scheme, ":", "//">> \o value)
            ELSE parsed
        scheme == IF parsed.scheme = "" THEN default_scheme ELSE parsed.scheme
        netloc == Strip(effective_parsed.netloc)
    IN  IF value = <<>> \/ scheme \notin SeqToSet(allowed_schemes) \/ netloc = <<>>
        THEN Invalid
        ELSE urlunparse([scheme |-> scheme,
                         netloc |-> Lower(netloc),
                         path |-> IF effective_parsed.path = <<>>
                                  THEN <<"/">>
                                  ELSE effective_parsed.path])

validate_target_url(url, allowed) ==
    LET value == Strip(url)
        allowed_schemes == _normalize_allowed_schemes(allowed)
        parsed == urlparse(value)
        default_scheme == _default_scheme(allowed_schemes)
        effective_parsed ==
            IF parsed.scheme = ""
            THEN urlparse(<<default_scheme, ":", "//">> \o value)
            ELSE parsed
        scheme == IF parsed.scheme = "" THEN default_scheme ELSE parsed.scheme
        netloc == Strip(effective_parsed.netloc)
    IN  IF value = <<>> THEN Invalid
        ELSE IF parsed.scheme # "" /\ parsed.scheme \notin SeqToSet(allowed_schemes)
        THEN Invalid
        ELSE IF scheme \notin SeqToSet(allowed_schemes) THEN Invalid
        ELSE IF netloc = <<>> THEN Invalid
        ELSE urlunparse([scheme |-> scheme,
                         netloc |-> Lower(netloc),
                         path |-> IF effective_parsed.path = <<>>
                                  THEN <<"/">>
                                  ELSE effective_parsed.path])

\* ------------------------------------------------------------------------
\* app/utils/enrich.py
\* A header or stored ref is the text  url ? k=v&k=v ; [none |-> TRUE] is
\* Python's None.
\* ------------------------------------------------------------------------
NoText == [none |-> TRUE, url |-> <<>>, query |-> <<>>]

Text(url, query) == [none |-> FALSE, url |-> url, query |-> query]

_UTM_FIELDS ==
    << <<"utm_source", "source">>, <<"utm_medium", "medium">>,
       <<"utm_campaign", "campaign">>, <<"utm_term", "term">>,
       <<"utm_content", "content">> >>

UtmKeys == {_UTM_FIELDS[i][2] : i \in 1..Len(_UTM_FIELDS)}

_blank_utm == [k \in UtmKeys |-> None]

\* the text is empty or None ("if not ref_header")
Falsy(text) == text.none \/ (text.url = <<>> /\ text.query = <<>>)

_extract_host(ref_header) ==
    LET ref == Strip(ref_header.url)
        parsed == urlparse(ref)
        byName == Lower(hostname(parsed.netloc))
        fromPath == SubSeq(parsed.path, 1, NetlocLen(parsed.path))
        host == IF byName # <<>> THEN byName
                ELSE IF parsed.netloc # <<>> THEN parsed.netloc
                ELSE IF parsed.path # <<>> /\ "//" \notin SeqToSet(parsed.path)
                THEN fromPath
                ELSE <<>>
    IN  IF Falsy(ref_header) \/ ref = <<>> THEN <<>> ELSE Lower(Strip(host))

\* parse_qsl(query, keep_blank_values=False) and the match on the lower-cased
\* key; a later pair overwrites an earlier one
RECURSIVE _extract_utm_from_query(_)
_extract_utm_from_query(query) ==
    IF query = <<>> THEN _blank_utm
    ELSE LET before == _extract_utm_from_query(SubSeq(query, 1, Len(query) - 1))
             pair == query[Len(query)]
             hit == {i \in 1..Len(_UTM_FIELDS) : LowerTok(pair[1]) = _UTM_FIELDS[i][1]}
         IN  IF pair[2] = "" \/ hit = {} THEN before
             ELSE [before EXCEPT ![_UTM_FIELDS[CHOOSE i \in hit : TRUE][2]] = pair[2]]

\* parse_ref that lets the referrer's UTM values win
parse_ref_header_first(ref_header, url_query) ==
    LET own == _extract_utm_from_query(url_query)
        ref == IF Falsy(ref_header) THEN _blank_utm
               ELSE _extract_utm_from_query(ref_header.query)
    IN  [host |-> _extract_host(ref_header),
         utm |-> [k \in UtmKeys |-> IF ref[k] # None THEN ref[k] ELSE own[k]]]

parse_ref(ref_header, url_query) ==
    LET own == _extract_utm_from_query(url_query)
        ref == IF Falsy(ref_header) THEN _blank_utm
               ELSE _extract_utm_from_query(ref_header.query)
    IN  [host |-> _extract_host(ref_header),
         utm |-> [k \in UtmKeys |-> IF own[k] # None THEN own[k] ELSE ref[k]]]

serialize_ref(host, utm, fallback) ==
    LET idx == SelectSeq([i \in 1..Len(_UTM_FIELDS) |-> i],
                         LAMBDA i : utm[_UTM_FIELDS[i][2]] \notin {None, ""})
        query == [j \in 1..Len(idx) |->
                    <<_UTM_FIELDS[idx[j]][1], utm[_UTM_FIELDS[idx[j]][2]]>>]
        cleaned_host == Lower(Strip(host))
        fallback_clean == Text(Strip(fallback.url), fallback.query)
    IN  IF cleaned_host # <<>> \/ query # <<>> THEN Text(cleaned_host, query)
        ELSE IF fallback.none \/ Falsy(fallback_clean) THEN NoText
        ELSE fallback_clean

\* the characters of a UTM value; a value of one word is its own token
Composite == {"a b", "a&b", "x=y"}

Chars(v) ==
    CASE v = "" -> <<>>
      [] v = "a b" -> <<"a", " ", "b">>
      [] v = "a&b" -> <<"a", "&", "b">>
      [] v = "x=y" -> <<"x", "=", "y">>
      [] OTHER -> <<v>>

\* the string with these characters
FromChars(s) ==
    IF s = <<>> THEN ""
    ELSE IF Len(s) = 1 THEN s[1]
    ELSE IF \E v \in Composite : Chars(v) = s THEN CHOOSE v \in Composite : Chars(v) = s
    ELSE "?"

\* urlencode that leaves the reserved characters as they are
quote_plus_nothing(s) == s

\* urllib.parse.quote_plus on the characters of a value
quote_plus(s) ==
    [i \in 1..Len(s) |->
        CASE s[i] = " " -> "+"
          [] s[i] = "&" -> "%26"
          [] s[i] = "=" -> "%3D"
          [] s[i] = "+" -> "%2B"
          [] s[i] = "?" -> "%3F"
          [] OTHER -> s[i]]

\* urllib.parse.unquote_plus
unquote_plus(s) ==
    [i \in 1..Len(s) |->
        CASE s[i] = "+" -> " "
          [] s[i] = "%26" -> "&"
          [] s[i] = "%3D" -> "="
          [] s[i] = "%2B" -> "+"
          [] s[i] = "%3F" -> "?"
          [] OTHER -> s[i]]

\* urllib.parse.urlencode of (key, value) pairs: k=v&k=v
RECURSIVE urlencode(_)
urlencode(pairs) ==
    IF pairs = <<>> THEN <<>>
    ELSE <<pairs[1][1], "=">> \o quote_plus(Chars(pairs[1][2]))
         \o (IF Len(pairs) > 1 THEN <<"&">> \o urlencode(Tail(pairs)) ELSE <<>>)

\* serialize_ref, lines 93-98: the string that is stored,
\* f"{cleaned_host}?{query}" (<<>> is None)
Stored(text) ==
    IF text.none THEN <<>>
    ELSE text.url \o (IF text.query # <<>> THEN <<"?">> \o urlencode(text.query)
                      ELSE <<>>)

\* position of the first token t in s, 0 if there is none
IndexOf(s, t) ==
    LET m == {i \in 1..Len(s) : s[i] = t}
    IN  IF m = {} THEN 0 ELSE CHOOSE i \in m : \A j \in m : i <= j

\* urllib.parse.parse_qsl on the text of a query: the fields between "&",
\* each split at its first "=", key and value unquoted
RECURSIVE parse_qsl(_)
parse_qsl(query) ==
    IF query = <<>> THEN <<>>
    ELSE LET amp == IndexOf(query, "&")
             field == IF amp = 0 THEN query ELSE SubSeq(query, 1, amp - 1)
             rest == IF amp = 0 THEN <<>> ELSE SubSeq(query, amp + 1, Len(query))
             eq == IndexOf(field, "=")
             key == IF eq = 0 THEN field ELSE SubSeq(field, 1, eq - 1)
             value == IF eq = 0 THEN <<>> ELSE SubSeq(field, eq + 1, Len(field))
         IN  (IF field = <<>> THEN <<>>
              ELSE << <<FromChars(unquote_plus(key)), FromChars(unquote_plus(value))>> >>)
             \o parse_qsl(rest)

\* "://" in raw
HasSchemeSep(raw) == \E i \in 1..Len(raw) - 1 : raw[i] = ":" /\ raw[i + 1] = "//"

\* decode_ref on a stored string (<<>> for None or ""): host (<<>> is None)
\* and utm
decode_ref(value) ==
    LET raw == Strip(value)
        q == IndexOf(raw, "?")
        before == IF q = 0 THEN raw ELSE SubSeq(raw, 1, q - 1)
        after == IF q = 0 THEN <<>> ELSE SubSeq(raw, q + 1, Len(raw))
        parsed == urlparse(before)
        byName == hostname(parsed.netloc)
        host == IF HasSchemeSep(raw)
                THEN (IF byName # <<>> THEN Lower(byName) ELSE parsed.netloc)
                ELSE before
    IN  IF raw = <<>> THEN [host |-> <<>>, utm |-> _blank_utm]
        ELSE [host |-> Lower(Strip(host)),
              utm |-> _extract_utm_from_query(parse_qsl(after))]

\* ------------------------------------------------------------------------
\* Configuration and inputs
\* ------------------------------------------------------------------------
Bursts == {1, 3, 5}
Windows == {0, 1, 4}
Limits == {1, 4}
AllowedRaw == << <<"https">>, <<" ", "HTTP", " ">>, <<>> >>

\* a common multiple of the positive windows: tokens are counted in units of
\* 1/TokenScale
TokenScale == 2 * 2

Methods == {"GET", "HEAD", "POST"}
Slugs == {"demo", "js", "port", "nope"}
Chain == << <<" ">>, <<" ", "1.2.3.4">> >>
Peer == "5.6.7.8"
Referer == Text(<<"https", ":", "//", "Example.COM", "/x">>, << <<"utm_source", "ref">> >>)
Query == << <<"UTM_SOURCE", "campaign">> >>

Req(method, slug, xff, referer, query, fault) ==
    [method |-> method, path |-> <<"/r/", slug>>, xff |-> xff, client |-> Peer,
     ua |-> "curl", referer |-> referer, query |-> query, fault |-> fault,
     x_request_id |-> None]

\* the request with an X-Request-ID header
WithRequestId(req, id) == [req EXCEPT !.x_request_id = id]

\* the requests of the model: every slug from both addresses, the other
\* methods, a request that carries a referrer and UTM parameters, and requests
\* during which the database connection breaks at the SELECT or at the COMMIT
Requests ==
    {Req("GET", s, x, NoText, <<>>, "none") : s \in Slugs, x \in {<<>>, Chain}}
    \cup {Req(m, "demo", x, NoText, <<>>, "none") : m \in {"HEAD", "POST"},
                                                   x \in {<<>>, Chain}}
    \cup {Req("GET", s, <<>>, Referer, Query, "none") : s \in {"demo", "js"}}
    \cup {Req("GET", s, Chain, NoText, <<>>, f) : s \in {"demo", "nope"},
                                               f \in {"select", "commit"}}
    \cup {WithRequestId(Req("GET", "demo", <<>>, NoText, <<>>, "none"), "abc")}

\* the requests of the rate-limiter runs: an unknown slug from both addresses
\* (as in tests/test_rate_limit.py), and a POST
Probes ==
    {Req("GET", "nope", x, NoText, <<>>, "none") : x \in {<<>>, Chain}}
    \cup {Req("POST", "nope", <<>>, NoText, <<>>, "none")}

VARIABLES
    now,               \* time.monotonic()
    env,               \* os.environ: RATE_LIMIT_BURST (burst), RATE_LIMIT_WINDOW_SEC
                       \* (window), RATE_LIMIT_LIMIT (limit), TIDB_DSN (dsn)
    nenv,              \* number of live configuration changes so far
    limit_per_window,  \* RateLimitMiddleware.limit_per_window
    window_seconds,    \* RateLimitMiddleware.window_seconds
    _buckets,          \* RateLimitMiddleware._buckets: (ip, prefix) -> deque
    _ip_buckets,       \* routes_redirect._ip_buckets: ip -> TokenBucket
    _engine,           \* db._engine/_SessionLocal have been created
    routes,            \* table routes
    route_hits,        \* table route_hits
    last,              \* the last request and its response
    nreq,              \* number of requests so far
    mw_calls,          \* history: per key, every request seen by the middleware
    bucket_calls,      \* history: per ip, the try_consume calls since creation
    headers            \* the headers of the last response (X-Request-ID)

VARIABLES
    _queue,            \* InProcessQueue._queue: the items put so far and not yet got
    _scheduled,        \* the loop's callbacks scheduled by call_soon_threadsafe
    records,           \* the TaskRecord objects created so far
    _tasks,            \* InProcessQueue._tasks: task id -> index of its TaskRecord
    max_queue_size,    \* InProcessQueue.max_queue_size
    consumer,          \* where _consumer stands, and the record it holds
    submitted,         \* the last call of submit and what it returned
    nsub               \* number of submit calls so far

VARIABLES
    webhooks,          \* table webhooks
    jobs,              \* the threads started by enqueue_event, each running _run_job
    enqueued,          \* the last call of enqueue_event and what it returned
    nenq,              \* number of enqueue_event calls so far
    ndel               \* number of webhook rows deleted so far

hookVars == <<webhooks, jobs, enqueued, nenq, ndel>>

VARIABLES
    api_calls,         \* the calls of POST /api/routes so far, and where each stands
    blocked_domains,   \* os.environ: BLOCKED_TARGET_DOMAINS
    nblk               \* number of changes of BLOCKED_TARGET_DOMAINS so far

apiVars == <<api_calls, blocked_domains, nblk>>

VARIABLES
    applied            \* the last call of a function of utils/enrich.py

refVars == <<applied>>

VARIABLES
    objects,           \* the TokenBucket objects that have been created
    buckets_by_ip,     \* routes_redirect._ip_buckets as references: ip -> object
    threads            \* the request threads inside redirect_slug, lines 94-98

raceVars == <<objects, buckets_by_ip, threads>>

sideVars == <<apiVars, refVars, raceVars>>

restVars == <<hookVars, sideVars>>

queueVars ==
    <<_queue, _scheduled, records, _tasks, max_queue_size, consumer, submitted, nsub>>

gateVars ==
    <<now, env, nenv, limit_per_window, window_seconds, _buckets, _ip_buckets,
      _engine, routes, route_hits, last, nreq, mw_calls, bucket_calls, headers>>

Min(a, b) == IF a < b THEN a ELSE b
Max(a, b) == IF a > b THEN a ELSE b

\* f with key k set to v (dict assignment)
Put(f, k, v) == [x \in DOMAIN f \cup {k} |-> IF x = k THEN v ELSE f[x]]

\* ------------------------------------------------------------------------
\* app/middleware/rate_limit.py
\* ------------------------------------------------------------------------
path_prefixes == <<"/r/", "/agent/publish", "/api/releases/">>

\* [p.strip() for p in xff.split(",") if p.strip()]
XffParts(req) ==
    LET kept == SelectSeq(req.xff, LAMBDA part : Strip(part) # <<>>)
    IN  [i \in 1..Len(kept) |-> Strip(kept[i])[1]]

\* a key that ignores X-Forwarded-For: the peer address
_extract_client_ip_peer(req) ==
    IF req.client # None THEN req.client ELSE "unknown"

_extract_client_ip(req) ==
    IF XffParts(req) # <<>> THEN XffParts(req)[1]
    ELSE IF req.client # None THEN req.client ELSE "unknown"

_match_prefix(path) ==
    LET m == {i \in 1..Len(path_prefixes) : path[1] = path_prefixes[i]}
    IN  IF m = {} THEN None ELSE path_prefixes[CHOOSE i \in m : \A j \in m : i <= j]

\* SlidingWindow.__init__: max(int(window_seconds or 60), 1)
SlidingWindow(w) == Max(IF w = 0 THEN 60 ELSE w, 1)

RECURSIVE popleft_old(_, _)
popleft_old(events, cutoff) ==
    IF events # <<>> /\ Head(events) < cutoff
    THEN popleft_old(Tail(events), cutoff)
    ELSE events

\* add_and_prune that also drops the events that are exactly one window old
add_and_prune_open_window(events, window, now_value) ==
    SelectSeq(Append(events, now_value), LAMBDA e : e > now_value - window)

\* SlidingWindow.add_and_prune: the deque afterwards (its length is returned)
add_and_prune(events, window, now_value) ==
    popleft_old(Append(events, now_value), now_value - window)

\* the comparison with >= : the request that reaches the limit is rejected
over_limit_ge(count) == count >= limit_per_window

\* RateLimitMiddleware.dispatch, line 91
over_limit(count) == count > limit_per_window

\* ------------------------------------------------------------------------
\* app/routes_redirect.py
\* ------------------------------------------------------------------------
_get_allowed_target_schemes ==
    LET kept == SelectSeq(AllowedRaw, LAMBDA item : Strip(item) # <<>>)
        cleaned == [i \in 1..Len(kept) |-> LowerTok(Strip(kept[i])[1])]
    IN  IF cleaned # <<>> THEN cleaned ELSE <<"https", "http">>

extract_client_ip(req) ==
    IF XffParts(req) # <<>> THEN XffParts(req)[1] ELSE req.client

\* try_consume whose denial throws the refill of the elapsed time away
try_consume_denial_loses_refill(b, t, amount) ==
    LET elapsed == t - b.last_refill
        doRefill == b.refill_seconds > 0 /\ elapsed > 0
        refill == IF doRefill
                  THEN (b.capacity * TokenScale * elapsed) \div b.refill_seconds
                  ELSE 0
        filled == IF doRefill
                  THEN [b EXCEPT !.tokens = Min(b.capacity * TokenScale, b.tokens + refill),
                                 !.last_refill = t]
                  ELSE b
    IN  IF filled.tokens >= amount * TokenScale
        THEN [bucket |-> [filled EXCEPT !.tokens = filled.tokens - amount * TokenScale],
              ok |-> TRUE]
        ELSE [bucket |-> [filled EXCEPT !.tokens = b.tokens], ok |-> FALSE]

\* try_consume that asks for more than the amount (>, not >=)
try_consume_strict(b, t, amount) ==
    LET elapsed == t - b.last_refill
        doRefill == b.refill_seconds > 0 /\ elapsed > 0
        refill == IF doRefill
                  THEN (b.capacity * TokenScale * elapsed) \div b.refill_seconds
                  ELSE 0
        filled == IF doRefill
                  THEN [b EXCEPT !.tokens = Min(b.capacity * TokenScale, b.tokens + refill),
                                 !.last_refill = t]
                  ELSE b
    IN  IF filled.tokens > amount * TokenScale
        THEN [bucket |-> [filled EXCEPT !.tokens = filled.tokens - amount * TokenScale],
              ok |-> TRUE]
        ELSE [bucket |-> filled, ok |-> FALSE]

\* try_consume that subtracts the amount before it compares
try_consume_always_deducts(b, t, amount) ==
    LET elapsed == t - b.last_refill
        doRefill == b.refill_seconds > 0 /\ elapsed > 0
        refill == IF doRefill
                  THEN (b.capacity * TokenScale * elapsed) \div b.refill_seconds
                  ELSE 0
        filled == IF doRefill
                  THEN [b EXCEPT !.tokens = Min(b.capacity * TokenScale, b.tokens + refill),
                                 !.last_refill = t]
                  ELSE b
    IN  [bucket |-> [filled EXCEPT !.tokens = filled.tokens - amount * TokenScale],
         ok |-> filled.tokens >= amount * TokenScale]

\* TokenBucket.try_consume at monotonic time t: the bucket afterwards and the
\* returned flag
try_consume(b, t, amount) ==
    LET elapsed == t - b.last_refill
        doRefill == b.refill_seconds > 0 /\ elapsed > 0
        refill == IF doRefill
                  THEN (b.capacity * TokenScale * elapsed) \div b.refill_seconds
                  ELSE 0
        filled == IF doRefill
                  THEN [b EXCEPT !.tokens = Min(b.capacity * TokenScale, b.tokens + refill),
                                 !.last_refill = t]
                  ELSE b
    IN  IF filled.tokens >= amount * TokenScale
        THEN [bucket |-> [filled EXCEPT !.tokens = filled.tokens - amount * TokenScale],
              ok |-> TRUE]
        ELSE [bucket |-> filled, ok |-> FALSE]

\* _get_bucket_for_ip: the bucket that the lookup returns
_get_bucket_for_ip(ip) ==
    IF ip \notin DOMAIN _ip_buckets
    THEN [capacity |-> env.burst, refill_seconds |-> env.window,
          tokens |-> env.burst * TokenScale, last_refill |-> now]
    ELSE [_ip_buckets[ip] EXCEPT !.capacity = env.burst,
                                 !.refill_seconds = env.window]

\* app/errors.py json_error, with the layer that produced it
json_error(req, by, code, status_code, trace) ==
    [req |-> req, by |-> by, status |-> status_code, error |-> code,
     location |-> <<>>, trace |-> trace]

RedirectResponse(req, url, trace) ==
    [req |-> req, by |-> "handler", status |-> 302, error |-> "",
     location |-> url, trace |-> trace]

\* a lookup whose WHERE clause is lost: the first row of routes
RouteBySlug_first(slug) == IF routes = <<>> THEN 0 ELSE 1

\* the first row of routes with this slug (scalar_one_or_none), 0 if none
RouteBySlug(slug) ==
    LET m == {i \in 1..Len(routes) : routes[i].slug = slug}
    IN  IF m = {} THEN 0 ELSE CHOOSE i \in m : \A j \in m : i <= j

\* app/db.py try_get_session: TRUE when a session is returned, FALSE for None
try_get_session == _engine \/ env.dsn

\* a handler that redirects to the stored target without validating it
validate_and_redirect_unchecked(req, rid, trace) ==
    RedirectResponse(req, routes[rid].target_url, trace \o <<"validate", "redirect">>)

\* redirect_slug, lines 118-127: validate the stored target, then redirect
validate_and_redirect(req, rid, trace) ==
    LET allowed_schemes == _get_allowed_target_schemes
        normalized == validate_target_url(routes[rid].target_url, allowed_schemes)
    IN  IF normalized = Invalid
        THEN json_error(req, "handler", "invalid_url", 422,
                        Append(trace, "validate_raises"))
        ELSE RedirectResponse(req, normalized, trace \o <<"validate", "redirect">>)

\* record_hit that stores the raw Referer header
record_hit_raw_referer(req, rid, ip, trace) ==
    LET hit == [route_id |-> routes[rid].id, ip |-> ip, ua |-> req.ua,
                ref |-> req.referer]
    IN  IF req.fault = "commit"
        THEN [hits |-> <<>>,
              resp |-> json_error(req, "unhandled_exception_handler", "internal_error",
                                  500, trace \o <<"add", "commit_raises">>)]
        ELSE [hits |-> <<hit>>,
              resp |-> validate_and_redirect(req, rid, trace \o <<"add", "commit">>)]

\* redirect_slug, lines 108-116: build the RouteHit row, add it and commit;
\* the rows inserted and the response
record_hit(req, rid, ip, trace) ==
    LET enriched_ref == parse_ref(req.referer, req.query)
        serialized_ref == serialize_ref(enriched_ref.host, enriched_ref.utm, req.referer)
        hit == [route_id |-> routes[rid].id, ip |-> ip, ua |-> req.ua,
                ref |-> serialized_ref]
    IN  IF req.fault = "commit"
        THEN [hits |-> <<>>,
              resp |-> json_error(req, "unhandled_exception_handler", "internal_error",
                                  500, trace \o <<"add", "commit_raises">>)]
        ELSE [hits |-> <<hit>>,
              resp |-> validate_and_redirect(req, rid, trace \o <<"add", "commit">>)]

\* a handler that validates the stored target before it records the click
resolve_validated_first(req, ip, db, trace) ==
    LET rid == RouteBySlug(req.path[2])
    IN  IF ~db
        THEN [hits |-> <<>>,
              resp |-> json_error(req, "handler", "not_found", 404,
                                  Append(trace, "no_session"))]
        ELSE IF req.fault = "select"
        THEN [hits |-> <<>>,
              resp |-> json_error(req, "unhandled_exception_handler", "internal_error",
                                  500, Append(trace, "select_raises"))]
        ELSE IF rid = 0
        THEN [hits |-> <<>>,
              resp |-> json_error(req, "handler", "not_found", 404,
                                  Append(trace, "select"))]
        ELSE IF validate_target_url(routes[rid].target_url,
                                    _get_allowed_target_schemes) = Invalid
        THEN [hits |-> <<>>,
              resp |-> json_error(req, "handler", "invalid_url", 422,
                                  trace \o <<"select", "validate_raises">>)]
        ELSE record_hit(req, rid, ip, Append(trace, "select"))

\* redirect_slug, lines 100-106: no session, or look the slug up
resolve(req, ip, db, trace) ==
    LET rid == RouteBySlug(req.path[2])
    IN  IF ~db
        THEN [hits |-> <<>>,
              resp |-> json_error(req, "handler", "not_found", 404,
                                  Append(trace, "no_session"))]
        ELSE IF req.fault = "select"
        THEN [hits |-> <<>>,
              resp |-> json_error(req, "unhandled_exception_handler", "internal_error",
                                  500, Append(trace, "select_raises"))]
        ELSE IF rid = 0
        THEN [hits |-> <<>>,
              resp |-> json_error(req, "handler", "not_found", 404,
                                  Append(trace, "select"))]
        ELSE record_hit(req, rid, ip, Append(trace, "select"))

\* the rate check applied after the database work
rate_checked_after_db(req, ip, ok, db, trace) ==
    LET out == resolve(req, ip, db, trace)
    IN  IF ~ok
        THEN [hits |-> out.hits,
              resp |-> json_error(req, "handler", "rate_limited", 429,
                                  Append(out.resp.trace, "bucket_deny"))]
        ELSE out

\* redirect_slug, lines 97-98: a denied try_consume ends the request
rate_checked(req, ip, ok, db, trace) ==
    IF ~ok
    THEN [hits |-> <<>>,
          resp |-> json_error(req, "handler", "rate_limited", 429,
                              Append(trace, "bucket_deny"))]
    ELSE resolve(req, ip, db, Append(trace, "bucket_allow"))

\* redirect_slug: the handler behind the middlewares (trace holds the steps
\* taken before it)
redirect_slug(req, trace) ==
    LET ip == extract_client_ip(req)
        ip_key == IF ip = None THEN "unknown" ELSE ip
        consumed == try_consume(_get_bucket_for_ip(ip_key), now, 1)
        call == [t |-> now, ok |-> consumed.ok, capacity |-> env.burst,
                 refill_seconds |-> env.window]
        out == rate_checked(req, ip, consumed.ok, try_get_session, trace)
    IN  /\ _engine' = (_engine \/ env.dsn)
        /\ _ip_buckets' = Put(_ip_buckets, ip_key, consumed.bucket)
        /\ bucket_calls' =
              Put(bucket_calls, ip_key,
                  IF ip_key \in DOMAIN _ip_buckets
                  THEN Append(bucket_calls[ip_key], call)
                  ELSE <<call>>)
        /\ route_hits' = route_hits \o out.hits
        /\ last' = out.resp

\* the router behind the middlewares: /r/{slug} is registered for GET and HEAD
call_next(req, trace) ==
    IF req.method \in {"GET", "HEAD"}
    THEN redirect_slug(req, trace)
    ELSE /\ last' = json_error(req, "http_exception_handler", "method_not_allowed",
                               405, trace)
         /\ UNCHANGED <<_ip_buckets, bucket_calls, _engine, route_hits>>

\* app/middleware.py
\* request.state of a request that RequestContextMiddleware has not seen
NoState == [request_id |-> ""]

NoHeaders == [x_request_id |-> None]

\* get_request_id: getattr(request.state, "request_id", "")
get_request_id(state) == state.request_id

_attach_request_id(response_headers, state) ==
    IF get_request_id(state) # ""
    THEN [response_headers EXCEPT !.x_request_id = get_request_id(state)]
    ELSE response_headers

\* RequestContextMiddleware.dispatch, lines 65-67: request.state once the
\* middleware has taken the request
RequestContextMiddleware(req) ==
    [request_id |-> IF req.x_request_id \notin {None, ""}
                    THEN req.x_request_id
                    ELSE "uuid4"]

\* RateLimitMiddleware.dispatch: one request to /r/{slug}, from the outermost
\* middleware to the response
dispatch(req) ==
    LET prefix == _match_prefix(req.path)
        enforced == prefix # None /\ req.method \in {"GET", "HEAD", "POST"}
        key == <<_extract_client_ip(req), prefix>>
        events == IF key \in DOMAIN _buckets THEN _buckets[key] ELSE <<>>
        bucket == add_and_prune(events, SlidingWindow(window_seconds), now)
        count == Len(bucket)
        rejected == enforced /\ over_limit(count)
    IN  /\ nreq' = nreq + 1
        /\ _buckets' = IF enforced THEN Put(_buckets, key, bucket) ELSE _buckets
        /\ IF rejected
           THEN /\ last' = json_error(req, "middleware", "rate_limited", 429,
                                      <<"window_deny">>)
                /\ UNCHANGED <<_ip_buckets, bucket_calls, _engine, route_hits>>
           ELSE call_next(req, IF enforced THEN <<"window_allow">> ELSE <<>>)
        /\ headers' =
              IF rejected
              THEN _attach_request_id(NoHeaders, NoState)
              ELSE _attach_request_id(NoHeaders, RequestContextMiddleware(req))
        /\ mw_calls' =
              IF enforced
              THEN Put(mw_calls, key,
                       Append(IF key \in DOMAIN mw_calls THEN mw_calls[key] ELSE <<>>,
                              [t |-> now, admitted |-> ~rejected,
                               status |-> last'.status, error |-> last'.error]))
              ELSE mw_calls
        /\ UNCHANGED <<now, env, nenv, limit_per_window, window_seconds, routes>>
        /\ UNCHANGED queueVars
        /\ UNCHANGED restVars

Request ==
    /\ nreq < MaxReq
    /\ Len(route_hits) < MaxHits
    /\ \E req \in Requests : dispatch(req)

Probe ==
    /\ nreq < MaxProbes
    /\ \E req \in Probes : dispatch(req)

\* time.monotonic() advances
Tick ==
    /\ now < MaxTime
    /\ now' = now + 1
    /\ UNCHANGED <<env, nenv, limit_per_window, window_seconds, _buckets,
                   _ip_buckets, _engine, routes, route_hits, last, nreq, mw_calls,
                   bucket_calls, headers>>
    /\ UNCHANGED queueVars
    /\ UNCHANGED restVars

\* an operator changes RATE_LIMIT_BURST / RATE_LIMIT_WINDOW_SEC of the running
\* process
SetEnv ==
    /\ nenv < MaxEnvChanges
    /\ \E b \in Bursts, w \in Windows :
          /\ <<b, w>> # <<env.burst, env.window>>
          /\ env' = [env EXCEPT !.burst = b, !.window = w]
    /\ nenv' = nenv + 1
    /\ UNCHANGED <<now, limit_per_window, window_seconds, _buckets, _ip_buckets,
                   _engine, routes, route_hits, last, nreq, mw_calls, bucket_calls,
                   headers>>
    /\ UNCHANGED queueVars
    /\ UNCHANGED restVars

NoRequest == Req("GET", "nope", <<>>, NoText, <<>>, "none")

InitRoutes ==
    << [id |-> 1, user_id |-> 1, slug |-> "demo",
        target_url |-> <<"HTTPS", ":", "//", "Example.COM">>],
       [id |-> 2, user_id |-> 1, slug |-> "js",
        target_url |-> <<"javascript", ":", "alert(1)">>],
       [id |-> 3, user_id |-> 1, slug |-> "port",
        target_url |-> <<"https", ":", "//", ":80", "/x">>] >>

\* ------------------------------------------------------------------------
\* app/worker/queue.py
\* ------------------------------------------------------------------------
TaskIds == {"hash:release:1", "webhook:1"}
Kinds == {"hash"}
\* what the job function does when it is called: return, raise, or return a
\* coroutine that finishes or raises when awaited
Funcs == {"returns", "raises", "coroutine", "coroutine_raises"}

TaskRecord(id, kind) == [id |-> id, kind |-> kind, status |-> "queued", error |-> None]

\* An item (task_id, func, arg) of the queue is [task_id, func, created]:
\* created, the position in records of the TaskRecord that its submit made,
\* tells the items of two submits with one task_id apart.

\* submit that creates the TaskRecord before it looks at the queue size
submit_record_first(task_id, kind, func) ==
    /\ nsub < MaxSubmits
    /\ nsub' = nsub + 1
    /\ records' = Append(records, TaskRecord(task_id, kind))
    /\ _tasks' = Put(_tasks, task_id, Len(records) + 1)
    /\ IF Len(_queue) >= max_queue_size
       THEN /\ submitted' = [task_id |-> task_id, ret |-> FALSE]
            /\ UNCHANGED <<_queue, _scheduled>>
       ELSE /\ _scheduled' = Append(_scheduled, [task_id |-> task_id, func |-> func,
                                               created |-> Len(records) + 1])
            /\ submitted' = [task_id |-> task_id, ret |-> TRUE]
            /\ UNCHANGED _queue
    /\ UNCHANGED <<max_queue_size, consumer>>
    /\ UNCHANGED gateVars
    /\ UNCHANGED restVars

\* InProcessQueue.submit, called from a request thread
submit(task_id, kind, func) ==
    /\ nsub < MaxSubmits
    /\ nsub' = nsub + 1
    /\ IF Len(_queue) >= max_queue_size
       THEN /\ submitted' = [task_id |-> task_id, ret |-> FALSE]
            /\ UNCHANGED <<_queue, _scheduled, records, _tasks>>
       ELSE /\ records' = Append(records, TaskRecord(task_id, kind))
            /\ _tasks' = Put(_tasks, task_id, Len(records) + 1)
            /\ _scheduled' = Append(_scheduled, [task_id |-> task_id, func |-> func,
                                               created |-> Len(records) + 1])
            /\ submitted' = [task_id |-> task_id, ret |-> TRUE]
            /\ UNCHANGED _queue
    /\ UNCHANGED <<max_queue_size, consumer>>
    /\ UNCHANGED gateVars
    /\ UNCHANGED restVars

Submit == \E task_id \in TaskIds, kind \in Kinds, func \in Funcs : submit(task_id, kind, func)

\* a loop that puts the item at the front of the queue
put_nowait_front ==
    /\ consumer.pc \in {"get", "await"}
    /\ _scheduled # <<>>
    /\ _queue' = <<Head(_scheduled)>> \o _queue
    /\ _scheduled' = Tail(_scheduled)
    /\ UNCHANGED <<records, _tasks, max_queue_size, consumer, submitted, nsub>>
    /\ UNCHANGED gateVars
    /\ UNCHANGED restVars

\* the event loop runs a scheduled put_nowait; it can do so only while the
\* consumer is suspended at an await
put_nowait ==
    /\ consumer.pc \in {"get", "await"}
    /\ _scheduled # <<>>
    /\ _queue' = Append(_queue, Head(_scheduled))
    /\ _scheduled' = Tail(_scheduled)
    /\ UNCHANGED <<records, _tasks, max_queue_size, consumer, submitted, nsub>>
    /\ UNCHANGED gateVars
    /\ UNCHANGED restVars

\* a consumer that has stopped once a job has raised
consumer_get_stopped_by_error ==
    /\ consumer.pc = "get"
    /\ IF consumer.record = 0 THEN TRUE
       ELSE records[consumer.record].status # "error"
    /\ _queue # <<>>
    /\ _queue' = Tail(_queue)
    /\ IF Head(_queue).task_id \notin DOMAIN _tasks
       THEN UNCHANGED <<records, consumer>>
       ELSE /\ records' = [records EXCEPT ![_tasks[Head(_queue).task_id]].status = "running"]
            /\ consumer' = [pc |-> "call", record |-> _tasks[Head(_queue).task_id],
                            func |-> Head(_queue).func,
                            created |-> Head(_queue).created]
    /\ UNCHANGED <<_scheduled, _tasks, max_queue_size, submitted, nsub>>
    /\ UNCHANGED gateVars
    /\ UNCHANGED restVars

\* _consumer, lines 49-54: get an item, look its record up, mark it running
consumer_get ==
    /\ consumer.pc = "get"
    /\ _queue # <<>>
    /\ _queue' = Tail(_queue)
    /\ IF Head(_queue).task_id \notin DOMAIN _tasks
       THEN UNCHANGED <<records, consumer>>
       ELSE /\ records' = [records EXCEPT ![_tasks[Head(_queue).task_id]].status = "running"]
            /\ consumer' = [pc |-> "call", record |-> _tasks[Head(_queue).task_id],
                            func |-> Head(_queue).func,
                            created |-> Head(_queue).created]
    /\ UNCHANGED <<_scheduled, _tasks, max_queue_size, submitted, nsub>>
    /\ UNCHANGED gateVars
    /\ UNCHANGED restVars

\* a consumer that evicts the record of a job that has returned
consumer_call_evicts ==
    /\ consumer.pc = "call"
    /\ CASE consumer.func = "returns" ->
              /\ records' = [records EXCEPT ![consumer.record].status = "done"]
              /\ _tasks' = [id \in DOMAIN _tasks \ {records[consumer.record].id}
                              |-> _tasks[id]]
              /\ consumer' = [consumer EXCEPT !.pc = "get"]
         [] consumer.func = "raises" ->
              /\ records' = [records EXCEPT ![consumer.record].status = "error",
                                            ![consumer.record].error = "str(exc)"]
              /\ consumer' = [consumer EXCEPT !.pc = "get"]
              /\ UNCHANGED _tasks
         [] OTHER ->
              /\ consumer' = [consumer EXCEPT !.pc = "await"]
              /\ UNCHANGED <<records, _tasks>>
    /\ UNCHANGED <<_queue, _scheduled, max_queue_size, submitted, nsub>>
    /\ UNCHANGED gateVars
    /\ UNCHANGED restVars

\* _consumer, lines 55-65: call the job function
consumer_call ==
    /\ consumer.pc = "call"
    /\ CASE consumer.func = "returns" ->
              /\ records' = [records EXCEPT ![consumer.record].status = "done"]
              /\ consumer' = [consumer EXCEPT !.pc = "get"]
         [] consumer.func = "raises" ->
              /\ records' = [records EXCEPT ![consumer.record].status = "error",
                                            ![consumer.record].error = "str(exc)"]
              /\ consumer' = [consumer EXCEPT !.pc = "get"]
         [] OTHER ->
              /\ consumer' = [consumer EXCEPT !.pc = "await"]
              /\ UNCHANGED records
    /\ UNCHANGED <<_queue, _scheduled, _tasks, max_queue_size, submitted, nsub>>
    /\ UNCHANGED gateVars
    /\ UNCHANGED restVars

\* a consumer that marks every awaited job 'done'
consumer_resume_always_done ==
    /\ consumer.pc = "await"
    /\ records' = [records EXCEPT ![consumer.record].status = "done"]
    /\ consumer' = [consumer EXCEPT !.pc = "get"]
    /\ UNCHANGED <<_queue, _scheduled, _tasks, max_queue_size, submitted, nsub>>
    /\ UNCHANGED gateVars
    /\ UNCHANGED restVars

\* _consumer, lines 58-65: the awaited coroutine finishes or raises
consumer_resume ==
    /\ consumer.pc = "await"
    /\ IF consumer.func = "coroutine"
       THEN records' = [records EXCEPT ![consumer.record].status = "done"]
       ELSE records' = [records EXCEPT ![consumer.record].status = "error",
                                       ![consumer.record].error = "str(exc)"]
    /\ consumer' = [consumer EXCEPT !.pc = "get"]
    /\ UNCHANGED <<_queue, _scheduled, _tasks, max_queue_size, submitted, nsub>>
    /\ UNCHANGED gateVars
    /\ UNCHANGED restVars

\* InProcessQueue.status
status(task_id) ==
    IF task_id \in DOMAIN _tasks THEN records[_tasks[task_id]] ELSE TaskRecord(None, None)

\* ------------------------------------------------------------------------
\* app/hooks/dispatcher.py
\* ------------------------------------------------------------------------
Users == {1, 2}
Events == {"route_hit", "release_published"}

\* a row of webhooks as create_webhook inserts it (active = 1); toggle_webhook
\* sets active to 0
Webhook(id, user_id, event, active) ==
    [id |-> id, user_id |-> user_id, event |-> event, active |-> active,
     last_failed_at |-> None]

InitWebhooks ==
    << Webhook(1, 1, "route_hit", 1), Webhook(2, 1, "route_hit", 0),
       Webhook(3, 2, "route_hit", 1), Webhook(4, 1, "release_published", 1),
       Webhook(5, 1, "route_hit", 1), Webhook(6, 2, "release_published", 0) >>

\* _run_job's default arguments
max_retries == 3
backoff == 1

\* what client.post gave: a response with a status code, or an exception
Answer(raised, status_code) == [raised |-> raised, status_code |-> status_code]

NoAnswer == Answer(FALSE, 0)

Answers == {Answer(FALSE, c) : c \in {199, 200, 299, 300}} \cup {Answer(TRUE, 0)}

\* _deliver that takes every answer below 400 for a success
_deliver_below_400(answer) ==
    IF answer.raised THEN FALSE ELSE 200 <= answer.status_code /\ answer.status_code < 400

\* _deliver, lines 41-47: what it returns for the answer of the endpoint
_deliver(answer) ==
    IF answer.raised THEN FALSE ELSE 200 <= answer.status_code /\ answer.status_code < 300

\* WebhookJob, with the position of the thread that runs _run_job on it:
\* attempt is the loop variable, delivered the results of _deliver so far,
\* answer the answer that the current round of the loop got, sleeps the
\* arguments of time.sleep so far
WebhookJob(id, event) ==
    [id |-> id, event |-> event, pc |-> "deliver", attempt |-> 0,
     delivered |-> <<>>, answer |-> NoAnswer, sleeps |-> <<>>,
     persist |-> "not_tried"]

\* select(Webhook).where(user_id == ..., event == ..., active == 1), in table
\* order
MatchingRows(user_id, event) ==
    SelectSeq(webhooks, LAMBDA row : /\ row.user_id = user_id
                                     /\ row.event = event
                                     /\ row.active = 1)

\* enqueue_event whose query has lost the filter on active
enqueue_event_all_rows(user_id, event, fault) ==
    LET rows == SelectSeq(webhooks, LAMBDA row : /\ row.user_id = user_id
                                                 /\ row.event = event)
    IN  /\ nenq < MaxEvents
        /\ Len(jobs) + Len(rows) <= MaxJobs
        /\ nenq' = nenq + 1
        /\ _engine' = (_engine \/ env.dsn)
        /\ IF ~try_get_session
           THEN /\ enqueued' = [user_id |-> user_id, event |-> event, ret |-> 0,
                                raised |-> FALSE, first |-> Len(jobs) + 1]
                /\ UNCHANGED jobs
           ELSE IF fault = "select"
           THEN /\ enqueued' = [user_id |-> user_id, event |-> event, ret |-> 0,
                                raised |-> TRUE, first |-> Len(jobs) + 1]
                /\ UNCHANGED jobs
           ELSE /\ jobs' = jobs \o [i \in 1..Len(rows) |-> WebhookJob(rows[i].id, event)]
                /\ enqueued' = [user_id |-> user_id, event |-> event,
                                ret |-> Len(rows), raised |-> FALSE,
                                first |-> Len(jobs) + 1]
        /\ UNCHANGED <<webhooks, ndel>>
        /\ UNCHANGED <<now, env, nenv, limit_per_window, window_seconds, _buckets,
                       _ip_buckets, routes, route_hits, last, nreq, mw_calls,
                       bucket_calls, headers>>
        /\ UNCHANGED queueVars
        /\ UNCHANGED sideVars

\* enqueue_event: one thread per matching row, the count is returned; the
\* SELECT may raise (fault), and the exception then reaches the caller
enqueue_event(user_id, event, fault) ==
    LET rows == MatchingRows(user_id, event)
    IN  /\ nenq < MaxEvents
        /\ Len(jobs) + Len(rows) <= MaxJobs
        /\ nenq' = nenq + 1
        /\ _engine' = (_engine \/ env.dsn)
        /\ IF ~try_get_session
           THEN /\ enqueued' = [user_id |-> user_id, event |-> event, ret |-> 0,
                                raised |-> FALSE, first |-> Len(jobs) + 1]
                /\ UNCHANGED jobs
           ELSE IF fault = "select"
           THEN /\ enqueued' = [user_id |-> user_id, event |-> event, ret |-> 0,
                                raised |-> TRUE, first |-> Len(jobs) + 1]
                /\ UNCHANGED jobs
           ELSE /\ jobs' = jobs \o [i \in 1..Len(rows) |-> WebhookJob(rows[i].id, event)]
                /\ enqueued' = [user_id |-> user_id, event |-> event,
                                ret |-> Len(rows), raised |-> FALSE,
                                first |-> Len(jobs) + 1]
        /\ UNCHANGED <<webhooks, ndel>>
        /\ UNCHANGED <<now, env, nenv, limit_per_window, window_seconds, _buckets,
                       _ip_buckets, routes, route_hits, last, nreq, mw_calls,
                       bucket_calls, headers>>
        /\ UNCHANGED queueVars
        /\ UNCHANGED sideVars

EnqueueEvent ==
    \E user_id \in Users, event \in Events, fault \in {"none", "select"} :
        enqueue_event(user_id, event, fault)

\* the frame of a step of a job thread
JobFrame ==
    /\ UNCHANGED <<enqueued, nenq, ndel>>
    /\ UNCHANGED gateVars
    /\ UNCHANGED queueVars
    /\ UNCHANGED sideVars

\* _run_job, lines 52-54: one call of _deliver on the answer of the endpoint,
\* and the test of what it returned
run_job_deliver(j, answer) ==
    LET ok == _deliver(answer)
    IN  /\ jobs[j].pc = "deliver"
        /\ jobs' = [jobs EXCEPT ![j].delivered = Append(@, ok),
                                ![j].answer = answer,
                                ![j].pc = IF ok THEN "done" ELSE "sleep"]
        /\ UNCHANGED webhooks
        /\ JobFrame

\* _run_job that sleeps the same time after every attempt
run_job_sleep_constant(j) ==
    /\ jobs[j].pc = "sleep"
    /\ jobs' = [jobs EXCEPT ![j].sleeps = Append(@, backoff),
                            ![j].attempt = @ + 1,
                            ![j].answer = NoAnswer,
                            ![j].pc = IF jobs[j].attempt + 1 < max_retries
                                      THEN "deliver" ELSE "persist"]
    /\ UNCHANGED webhooks
    /\ JobFrame

\* _run_job, lines 51 and 55: time.sleep(backoff * 2**attempt), then the next
\* round of the loop or the end of the loop
run_job_sleep(j) ==
    /\ jobs[j].pc = "sleep"
    /\ jobs' = [jobs EXCEPT ![j].sleeps = Append(@, backoff * 2 ^ jobs[j].attempt),
                            ![j].attempt = @ + 1,
                            ![j].answer = NoAnswer,
                            ![j].pc = IF jobs[j].attempt + 1 < max_retries
                                      THEN "deliver" ELSE "persist"]
    /\ UNCHANGED webhooks
    /\ JobFrame

\* _run_job, lines 57-71: set last_failed_at on the row; no session, no row
\* and a failing statement (fault) all end the job without it
run_job_persist(j, fault) ==
    LET m == {i \in 1..Len(webhooks) : webhooks[i].id = jobs[j].id}
    IN  /\ jobs[j].pc = "persist"
        /\ IF ~try_get_session
           THEN /\ jobs' = [jobs EXCEPT ![j].pc = "done", ![j].persist = "no_session"]
                /\ UNCHANGED webhooks
           ELSE IF fault = "get"
           THEN /\ jobs' = [jobs EXCEPT ![j].pc = "done", ![j].persist = "get_raises"]
                /\ UNCHANGED webhooks
           ELSE IF m = {}
           THEN /\ jobs' = [jobs EXCEPT ![j].pc = "done", ![j].persist = "no_row"]
                /\ UNCHANGED webhooks
           ELSE IF fault = "commit"
           THEN /\ jobs' = [jobs EXCEPT ![j].pc = "done", ![j].persist = "commit_raises"]
                /\ UNCHANGED webhooks
           ELSE /\ jobs' = [jobs EXCEPT ![j].pc = "done", ![j].persist = "committed"]
                /\ webhooks' = [i \in 1..Len(webhooks) |->
                                   IF i \in m
                                   THEN [webhooks[i] EXCEPT !.last_failed_at = "now()"]
                                   ELSE webhooks[i]]
        /\ JobFrame

Deliver == \E j \in 1..Len(jobs), answer \in Answers : run_job_deliver(j, answer)

Sleep == \E j \in 1..Len(jobs) : run_job_sleep(j)

Persist ==
    \E j \in 1..Len(jobs), fault \in {"none", "get", "commit"} : run_job_persist(j, fault)

\* routes_webhooks.delete_webhook by the owner of the row
delete_webhook(webhook_id) ==
    /\ ndel < MaxDeletes
    /\ \E i \in 1..Len(webhooks) : webhooks[i].id = webhook_id
    /\ webhooks' = SelectSeq(webhooks, LAMBDA row : row.id # webhook_id)
    /\ ndel' = ndel + 1
    /\ UNCHANGED <<jobs, enqueued, nenq>>
    /\ UNCHANGED gateVars
    /\ UNCHANGED queueVars
    /\ UNCHANGED sideVars

DeleteWebhook == \E webhook_id \in {1, 5} : delete_webhook(webhook_id)

\* ------------------------------------------------------------------------
\* app/routes_api.py: POST /api/routes, and app/redirects/sanity.py
\* ------------------------------------------------------------------------
\* characters outside [a-z0-9-]
SlugFill == {" ", "!", "_"}

\* number of characters of a token of a slug
TokLen(t) ==
    CASE t \in {"promo", "Promo", "PROMO"} -> 5
      [] t = "demo" -> 4
      [] OTHER -> 1

RECURSIVE SlugLen(_)
SlugLen(s) == IF s = <<>> THEN 0 ELSE TokLen(Head(s)) + SlugLen(Tail(s))

\* _MULTI_DASH_RE.sub("-", ...): a run of dashes becomes one dash
RECURSIVE Collapse(_)
Collapse(s) ==
    IF Len(s) < 2 THEN s
    ELSE IF s[1] = "-" /\ s[2] = "-" THEN Collapse(Tail(s))
    ELSE <<s[1]>> \o Collapse(Tail(s))

\* str.strip("-")
RECURSIVE StripDash(_)
StripDash(s) ==
    IF s # <<>> /\ Head(s) = "-" THEN StripDash(Tail(s))
    ELSE IF s # <<>> /\ s[Len(s)] = "-" THEN StripDash(SubSeq(s, 1, Len(s) - 1))
    ELSE s

\* text[:64], for texts whose 64th character ends a token
RECURSIVE Shorten(_, _)
Shorten(s, n) ==
    IF s = <<>> \/ TokLen(Head(s)) > n THEN <<>>
    ELSE <<Head(s)>> \o Shorten(Tail(s), n - TokLen(Head(s)))

_clean_slug(text) ==
    LET lowered == Lower(text)
        replaced == [i \in 1..Len(lowered) |->
                        IF lowered[i] \in SlugFill THEN "-" ELSE lowered[i]]
        collapsed == Collapse(replaced)
        trimmed == StripDash(collapsed)
        shortened == Shorten(trimmed, 64)
    IN  StripDash(shortened)

slugify(text) == _clean_slug(text)

\* the text of a slug as one string
Join(s) ==
    CASE s = <<>> -> ""
      [] Len(s) = 1 -> s[1]
      [] s = <<"promo", "-", "demo">> -> "promo-demo"
      [] OTHER -> "promo-x"

\* the item is a parent domain of the host: host.endswith("." + item)
SubdomainOf(host, item) == <<host, item>> \in {<<"api.example.com", "example.com">>}

\* sanity.get_blocked_domains
get_blocked_domains ==
    LET kept == SelectSeq(blocked_domains, LAMBDA part : Strip(part) # <<>>)
    IN  [i \in 1..Len(kept) |-> LowerTok(Strip(kept[i])[1])]

\* sanity.domain_allowed; host is the text that the caller passes
domain_allowed(host, blocked) ==
    LET domain == Lower(host)
    IN  /\ domain # <<>>
        /\ \A i \in 1..Len(blocked) :
              /\ domain # <<blocked[i]>>
              /\ ~SubdomainOf(domain[Len(domain)], blocked[i])

\* the payloads of POST /api/routes, each sent by the owner of its project
Payload(user_id, slug, target_url) ==
    [user_id |-> user_id, slug |-> slug, target_url |-> target_url]

Payloads ==
    { Payload(1, <<"Promo">>, <<"https", ":", "//", "Example.COM">>),
      Payload(2, <<" ", "promo", "!">>, <<"https", ":", "//", "api.example.com", "/x">>),
      Payload(1, <<"PROMO", "_", "-">>, <<"https", ":", "//", "example.com", ":80">>),
      Payload(2, <<"demo">>, <<"https", ":", "//", "other.org">>),
      Payload(1, <<"x">>, <<"https", ":", "//", "other.org">>),
      Payload(2, <<"Promo">>, <<"javascript", ":", "alert(1)">>) }

ApiCall(payload, pc, slug, target_url, status_code, code, at) ==
    [payload |-> payload, pc |-> pc, slug |-> slug, target_url |-> target_url,
     status |-> status_code, error |-> code, at |-> at]

ApiFrame ==
    /\ UNCHANGED <<now, env, nenv, limit_per_window, window_seconds, _buckets,
                   _ip_buckets, route_hits, last, nreq, mw_calls, bucket_calls,
                   headers>>
    /\ UNCHANGED queueVars
    /\ UNCHANGED hookVars
    /\ UNCHANGED refVars
    /\ UNCHANGED raceVars

\* create_route, lines 174-249: from the request to the proactive SELECT; the
\* call then holds a session with the new row pending (pc = "commit")
create_route_begin(payload) ==
    LET allowed_schemes == _get_allowed_target_schemes
        slug_raw == Strip(payload.slug)
        sanitized_slug == slugify(slug_raw)
        normalized_url == validate_target_url(payload.target_url, allowed_schemes)
        host == urlparse(normalized_url).netloc
        slug == Join(sanitized_slug)
        done(status_code, code, at) ==
            ApiCall(payload, "done", slug, normalized_url, status_code, code, at)
    IN  /\ Len(api_calls) < MaxCreates
        /\ _engine' = (_engine \/ env.dsn)
        /\ api_calls' = Append(api_calls,
              IF ~try_get_session
              THEN done(500, "internal_error", "get_db")
              ELSE IF sanitized_slug = <<>> \/ SlugLen(sanitized_slug) < 2
              THEN done(422, "invalid_slug", "slugify")
              ELSE IF normalized_url = Invalid
              THEN done(422, "invalid_url", "validate")
              ELSE IF ~domain_allowed(host, get_blocked_domains)
              THEN done(422, "invalid_url", "domain_allowed")
              ELSE IF RouteBySlug(slug) # 0
              THEN done(409, "slug_exists", "select")
              ELSE ApiCall(payload, "commit", slug, normalized_url, 0, "", "select"))
        /\ UNCHANGED <<routes, blocked_domains, nblk>>
        /\ ApiFrame

\* a commit on a table without the unique constraint
create_route_commit_unconstrained(k) ==
    /\ api_calls[k].pc = "commit"
    /\ routes' = Append(routes, [id |-> Len(routes) + 1,
                                 user_id |-> api_calls[k].payload.user_id,
                                 slug |-> api_calls[k].slug,
                                 target_url |-> api_calls[k].target_url])
    /\ api_calls' = [api_calls EXCEPT ![k].pc = "done", ![k].status = 201,
                                      ![k].at = "commit"]
    /\ UNCHANGED <<_engine, blocked_domains, nblk>>
    /\ ApiFrame

\* create_route, lines 251-264: db.add and db.commit; uq_routes_slug makes the
\* commit raise IntegrityError when a row with the slug exists by now
create_route_commit(k) ==
    /\ api_calls[k].pc = "commit"
    /\ IF RouteBySlug(api_calls[k].slug) # 0
       THEN /\ api_calls' = [api_calls EXCEPT ![k].pc = "done", ![k].status = 409,
                                              ![k].error = "slug_exists",
                                              ![k].at = "commit"]
            /\ UNCHANGED routes
       ELSE /\ routes' = Append(routes, [id |-> Len(routes) + 1,
                                         user_id |-> api_calls[k].payload.user_id,
                                         slug |-> api_calls[k].slug,
                                         target_url |-> api_calls[k].target_url])
            /\ api_calls' = [api_calls EXCEPT ![k].pc = "done", ![k].status = 201,
                                              ![k].at = "commit"]
    /\ UNCHANGED <<_engine, blocked_domains, nblk>>
    /\ ApiFrame

CreateRoute == \E payload \in Payloads : create_route_begin(payload)

Commit == \E k \in 1..Len(api_calls) : create_route_commit(k)

\* an operator sets BLOCKED_TARGET_DOMAINS of the running process
BlockedRaw == << <<" ", "Example.COM">>, <<" ">> >>

SetBlocked ==
    /\ nblk < MaxBlockChanges
    /\ blocked_domains' = (IF blocked_domains = <<>> THEN BlockedRaw ELSE <<>>)
    /\ nblk' = nblk + 1
    /\ UNCHANGED <<api_calls>>
    /\ UNCHANGED gateVars
    /\ UNCHANGED queueVars
    /\ UNCHANGED hookVars
    /\ UNCHANGED refVars
    /\ UNCHANGED raceVars

\* the requests to /r/{slug} of the runs that create routes
Visits == {Req("GET", s, <<>>, NoText, <<>>, "none") : s \in {"promo", "demo"}}

Visit ==
    /\ nreq < MaxVisits
    /\ \E req \in Visits : dispatch(req)

\* ------------------------------------------------------------------------
\* app/utils/enrich.py applied to inputs
\* ------------------------------------------------------------------------
RefHeaders ==
    { NoText,
      Text(<<>>, <<>>),
      Referer,
      Text(<<"https", ":", "//", "example.com", "/x">>,
           << <<"utm_source", "ref">>, <<"utm_term", "widgets">> >>),
      Text(<<"https", ":", "//", "example.com">>, << <<"UTM_MEDIUM", "social">> >>),
      Text(<<"example.com", "/x">>, <<>>) }

RefQueries ==
    { <<>>,
      Query,
      << <<"utm_source", "campaign">>, <<"utm_medium", "email">> >>,
      << <<"utm_source", "">> >>,
      << <<"utm_source", "a">>, <<"utm_source", "b">> >>,
      << <<"utm_term", "a b">> >>,
      << <<"other", "1">> >> }

RefHosts == { <<>>, <<"Example.COM">>, <<"example.com", ":80">>, <<"api.example.com">> }

RefUtms ==
    { [k \in UtmKeys |-> CASE k = "source" -> a
                           [] k = "medium" -> b
                           [] k = "content" -> c
                           [] OTHER -> None] :
        a \in {None, "", "twitter", "a&b"}, b \in {None, "a b", "x=y"},
        c \in {None, "twitter"} }

RefFrame ==
    /\ UNCHANGED gateVars
    /\ UNCHANGED queueVars
    /\ UNCHANGED hookVars
    /\ UNCHANGED apiVars
    /\ UNCHANGED raceVars

\* parse_ref on a Referer header and the query of the request
ParseRef ==
    \E ref_header \in RefHeaders, url_query \in RefQueries :
        /\ applied' = [fn |-> "parse_ref", ref_header |-> ref_header,
                       url_query |-> url_query,
                       result |-> parse_ref(ref_header, url_query)]
        /\ RefFrame

\* serialize_ref, decode_ref on what it returned, and serialize_ref again
RoundTrip ==
    \E host \in RefHosts, utm \in RefUtms :
        LET value == Stored(serialize_ref(host, utm, NoText))
            decoded == decode_ref(value)
        IN  /\ applied' = [fn |-> "round_trip", host |-> host, utm |-> utm,
                           value |-> value, decoded |-> decoded,
                           again |-> Stored(serialize_ref(decoded.host, decoded.utm,
                                                          NoText))]
            /\ RefFrame

\* ------------------------------------------------------------------------
\* app/routes_redirect.py, lines 60-98, thread by thread: redirect_slug is a
\* sync endpoint, which the server runs in a pool of threads; the steps of a
\* thread are the reads and writes of _ip_buckets and of the bucket's fields
\* ------------------------------------------------------------------------
\* a thread that has not yet entered redirect_slug: ip is the caller's key,
\* bucket the object it holds (0 for none), loaded the value of self.tokens
\* it has read, ok what try_consume returned
Thread == [pc |-> "enter", ip |-> None, bucket |-> 0, loaded |-> 0, ok |-> "pending"]

RaceFrame ==
    /\ UNCHANGED gateVars
    /\ UNCHANGED queueVars
    /\ UNCHANGED hookVars
    /\ UNCHANGED apiVars
    /\ UNCHANGED refVars

\* lines 94-95 and 77: ip_key, and bucket = _ip_buckets.get(ip)
race_get(t) ==
    \E req \in {r \in Probes : r.method \in {"GET", "HEAD"}} :
        LET ip == extract_client_ip(req)
        IN  /\ threads[t].pc = "enter"
            /\ threads' = [threads EXCEPT
                  ![t].ip = ip,
                  ![t].bucket = IF ip \in DOMAIN buckets_by_ip THEN buckets_by_ip[ip]
                                ELSE 0,
                  ![t].pc = "got"]
            /\ UNCHANGED <<objects, buckets_by_ip>>
            /\ RaceFrame

\* lines 78-84: no bucket was found: create one and store it; otherwise set
\* capacity and refill_seconds of the one that was found
race_make(t) ==
    /\ threads[t].pc = "got"
    /\ IF threads[t].bucket = 0
       THEN /\ objects' = Append(objects,
                                 [capacity |-> env.burst, refill_seconds |-> env.window,
                                  tokens |-> env.burst * TokenScale, last_refill |-> now])
            /\ buckets_by_ip' = Put(buckets_by_ip, threads[t].ip, Len(objects) + 1)
            /\ threads' = [threads EXCEPT ![t].bucket = Len(objects) + 1,
                                          ![t].pc = "refill"]
       ELSE /\ objects' = [objects EXCEPT ![threads[t].bucket].capacity = env.burst,
                                          ![threads[t].bucket].refill_seconds = env.window]
            /\ threads' = [threads EXCEPT ![t].pc = "refill"]
            /\ UNCHANGED buckets_by_ip
    /\ RaceFrame

\* try_consume, lines 61-67: the refill for the elapsed time
race_refill(t) ==
    LET b == objects[threads[t].bucket]
        elapsed == now - b.last_refill
    IN  /\ threads[t].pc = "refill"
        /\ objects' =
              IF b.refill_seconds > 0 /\ elapsed > 0
              THEN [objects EXCEPT ![threads[t].bucket] =
                      [b EXCEPT !.tokens =
                                   Min(b.capacity * TokenScale,
                                       b.tokens + (b.capacity * TokenScale * elapsed)
                                                  \div b.refill_seconds),
                                !.last_refill = now]]
              ELSE objects
        /\ threads' = [threads EXCEPT ![t].pc = "check"]
        /\ UNCHANGED buckets_by_ip
        /\ RaceFrame

\* try_consume, lines 68 and 71: if self.tokens >= amount
race_check(t) ==
    /\ threads[t].pc = "check"
    /\ threads' = [threads EXCEPT
          ![t].pc = IF objects[threads[t].bucket].tokens >= TokenScale THEN "load"
                    ELSE "done",
          ![t].ok = IF objects[threads[t].bucket].tokens >= TokenScale THEN "pending"
                    ELSE "denied"]
    /\ UNCHANGED <<objects, buckets_by_ip>>
    /\ RaceFrame

\* try_consume, line 69: self.tokens -= amount reads self.tokens ...
race_load(t) ==
    /\ threads[t].pc = "load"
    /\ threads' = [threads EXCEPT ![t].loaded = objects[threads[t].bucket].tokens,
                                  ![t].pc = "store"]
    /\ UNCHANGED <<objects, buckets_by_ip>>
    /\ RaceFrame

\* ... and writes the difference back; line 70: return True
race_store(t) ==
    /\ threads[t].pc = "store"
    /\ objects' = [objects EXCEPT ![threads[t].bucket].tokens =
                                     threads[t].loaded - TokenScale]
    /\ threads' = [threads EXCEPT ![t].pc = "done", ![t].ok = "allowed"]
    /\ UNCHANGED buckets_by_ip
    /\ RaceFrame

RaceGet == \E t \in 1..MaxThreads : race_get(t)
RaceMake == \E t \in 1..MaxThreads : race_make(t)
RaceRefill == \E t \in 1..MaxThreads : race_refill(t)
RaceCheck == \E t \in 1..MaxThreads : race_check(t)
RaceLoad == \E t \in 1..MaxThreads : race_load(t)
RaceStore == \E t \in 1..MaxThreads : race_store(t)

Init ==
    /\ now = 0
    /\ env \in [burst : Bursts, window : {1}, limit : Limits, dsn : BOOLEAN]
    /\ nenv = 0
    /\ limit_per_window = env.limit
    /\ window_seconds = (IF env.window = 0 THEN 60 ELSE env.window)
    /\ _buckets = <<>>
    /\ _ip_buckets = <<>>
    /\ _engine = FALSE
    /\ routes = InitRoutes
    /\ route_hits = <<>>
    /\ last = json_error(NoRequest, "none", "", 0, <<>>)
    /\ nreq = 0
    /\ mw_calls = <<>>
    /\ bucket_calls = <<>>
    /\ headers = NoHeaders
    /\ _queue = <<>>
    /\ _scheduled = <<>>
    /\ records = <<>>
    /\ _tasks = <<>>
    /\ max_queue_size = QueueSize
    /\ consumer = [pc |-> "get", record |-> 0, func |-> "returns", created |-> 0]
    /\ submitted = [task_id |-> None, ret |-> FALSE]
    /\ nsub = 0
    /\ webhooks = InitWebhooks
    /\ jobs = <<>>
    /\ enqueued = [user_id |-> 0, event |-> None, ret |-> 0, raised |-> FALSE,
                    first |-> 1]
    /\ nenq = 0
    /\ ndel = 0
    /\ api_calls = <<>>
    /\ blocked_domains = <<>>
    /\ nblk = 0
    /\ applied = [fn |-> "none"]
    /\ objects = <<>>
    /\ buckets_by_ip = <<>>
    /\ threads = [t \in 1..MaxThreads |-> Thread]

vars == <<gateVars, queueVars, restVars>>

\* the redirect gate
Next == Request \/ Tick

Spec == Init /\ [][Next]_vars

\* the rate limiters under live configuration changes
NextRate == Probe \/ Tick \/ SetEnv

SpecRate == Init /\ [][NextRate]_vars

\* the task queue: producers, the event loop and the consumer
NextQueue == Submit \/ put_nowait \/ consumer_get \/ consumer_call \/ consumer_resume

\* the queue runs in a process with one fixed limiter configuration
InitQueue == Init /\ env.burst = 3 /\ env.limit = 4 /\ env.dsn

SpecQueue == InitQueue /\ [][NextQueue]_vars

\* the task queue when the event loop keeps running its callbacks and the
\* consumer, and every job function returns or raises
SpecQueueLive ==
    /\ InitQueue
    /\ [][NextQueue]_vars
    /\ WF_vars(put_nowait)
    /\ WF_vars(consumer_get)
    /\ WF_vars(consumer_call)
    /\ WF_vars(consumer_resume)

\* the webhook dispatcher: events, the job threads, and a row being deleted
NextHook == EnqueueEvent \/ Deliver \/ Sleep \/ Persist \/ DeleteWebhook

InitHook == Init /\ env.burst = 3 /\ env.limit = 4

SpecHook == InitHook /\ [][NextHook]_vars

\* route creation, concurrent, next to redirects and a changing block-list
NextCreate == CreateRoute \/ Commit \/ SetBlocked \/ Visit

InitCreate == Init /\ env.burst = 3 /\ env.limit = 4

SpecCreate == InitCreate /\ [][NextCreate]_vars

\* the functions of utils/enrich.py on their inputs
NextRef == ParseRef \/ RoundTrip

InitRef == Init /\ env.burst = 3 /\ env.limit = 4 /\ env.dsn

SpecRef == InitRef /\ [][NextRef]_vars

\* concurrent requests inside the per-IP token bucket, at one moment of
\* monotonic time
NextRace == RaceGet \/ RaceMake \/ RaceRefill \/ RaceCheck \/ RaceLoad \/ RaceStore

InitRace == Init /\ env.burst = 1 /\ env.limit = 4 /\ env.dsn

SpecRace == InitRace /\ [][NextRace]_vars

\* ------------------------------------------------------------------------
\* Properties of the redirect gate (Spec)
\* ------------------------------------------------------------------------
\* the step is a request: last' is its response
IsRequest == nreq' = nreq + 1

Handled(req) == req.method \in {"GET", "HEAD"}

CallerIp(req) == IF req.xff = <<>> THEN req.client ELSE "1.2.3.4"

\* the sliding window of the request's key holds more than the limit once the
\* request is added
WindowDenies(req) ==
    LET key == <<CallerIp(req), "/r/">>
        events == IF key \in DOMAIN _buckets THEN _buckets[key] ELSE <<>>
    IN  Len(add_and_prune(events, SlidingWindow(window_seconds), now)) > limit_per_window

\* the token bucket of the request's address holds less than one token
BucketDenies(req) ==
    /\ Handled(req)
    /\ ~try_consume(_get_bucket_for_ip(CallerIp(req)), now, 1).ok

Denied(req) == WindowDenies(req) \/ BucketDenies(req)

DbSteps == {"select", "select_raises", "add", "commit", "commit_raises"}

\* the rows of routes with this slug
RowsOf(slug) == {i \in 1..Len(routes) : routes[i].slug = slug}

\* C1: a request that either limiter rejects is answered 429 'rate_limited',
\* runs no statement against the database and inserts no RouteHit row.
C1_RejectedHasNoSideEffect ==
    [][IsRequest /\ Denied(last'.req)
       => /\ last'.status = 429
          /\ last'.error = "rate_limited"
          /\ SeqToSet(last'.trace) \cap DbSteps = {}
          /\ route_hits' = route_hits]_vars

C1_Witness ==
    /\ last.status = 429
    /\ last.by = "handler"
    /\ last.trace = <<"window_allow", "bucket_deny">>

\* C2: a request that passes both limiters, finds its route, whose statements
\* all succeed and whose stored target is valid is answered 302 with the
\* normalized target as Location and inserts exactly one RouteHit row: the
\* route's id, the caller's address, the user agent and the serialized referrer.
C2_RedirectRecordsOneHit ==
    [][\A i \in RowsOf(last'.req.path[2]) :
         LET req == last'.req
             parsed == parse_ref(req.referer, req.query)
             target == validate_target_url(routes[i].target_url,
                                           _get_allowed_target_schemes)
         IN  /\ IsRequest /\ Handled(req) /\ ~Denied(req)
             /\ try_get_session /\ req.fault = "none"
             /\ target # Invalid
             => /\ last'.status = 302
                /\ last'.location = target
                /\ route_hits' =
                      Append(route_hits,
                             [route_id |-> routes[i].id, ip |-> CallerIp(req),
                              ua |-> req.ua,
                              ref |-> serialize_ref(parsed.host, parsed.utm,
                                                    req.referer)])]_vars

C2_Witness ==
    /\ last.status = 302
    /\ last.location = <<"https", ":", "//", "example.com", "/">>
    /\ route_hits =
          << [route_id |-> 1, ip |-> Peer, ua |-> "curl",
              ref |-> Text(<<"example.com">>, << <<"utm_source", "campaign">> >>)] >>

\* the response is a redirect to a URL whose scheme is allowed
RedirectsToAllowedScheme ==
    last.status = 302
    => urlparse(last.location).scheme \in SeqToSet(_get_allowed_target_schemes)

\* a request for the route whose target is javascript:alert(1) is never
\* redirected, and is answered 422 'invalid_url' once its target is validated
JavascriptTargetIsRefused ==
    last.req.path[2] = "js"
    => /\ last.status # 302
       /\ "commit" \in SeqToSet(last.trace)
          => last.status = 422 /\ last.error = "invalid_url"

\* C3 (as claimed): no 302 carries a Location whose scheme is outside the
\* allow-list or whose host is empty, and javascript:alert(1) is refused.
C3_AsClaimed ==
    /\ RedirectsToAllowedScheme
    /\ last.status = 302 => hostname(urlparse(last.location).netloc) # <<>>
    /\ JavascriptTargetIsRefused

\* C3 (amended): no 302 carries a Location whose scheme is outside the
\* allow-list or whose netloc is empty, and javascript:alert(1) is refused.
C3_RedirectTargetIsValidated ==
    /\ RedirectsToAllowedScheme
    /\ last.status = 302 => urlparse(last.location).netloc # <<>>
    /\ JavascriptTargetIsRefused

C3_Witness ==
    /\ last.req.path[2] = "js"
    /\ last.status = 422
    /\ Len(route_hits) = 1

\* C4: a request that passes the limiters and whose slug matches no row of
\* routes is answered 404 'not_found' and leaves route_hits unchanged.
C4_UnknownSlugIs404 ==
    [][LET req == last'.req
       IN  /\ IsRequest /\ Handled(req) /\ ~Denied(req)
           /\ req.fault # "select"
           /\ RowsOf(req.path[2]) = {}
           => /\ last'.status = 404
              /\ last'.error = "not_found"
              /\ route_hits' = route_hits]_vars

C4_Witness ==
    /\ last.status = 404
    /\ last.trace = <<"window_allow", "bucket_allow", "select">>
    /\ last.req.path[2] = "nope"

\* C5: a request during which the storage is unreachable - no session, a
\* failing SELECT, a failing COMMIT - is never answered with a 5xx.
C5_StorageFailureIsNot5xx ==
    (last.req.fault # "none" \/ "no_session" \in SeqToSet(last.trace))
    => last.status < 500

\* ------------------------------------------------------------------------
\* Properties of the rate limiters (SpecRate)
\* ------------------------------------------------------------------------
\* the first four try_consume calls on the bucket of ip were made with
\* capacity 3 and one positive refill window
FourCallsWithBurst3(ip) ==
    /\ Len(bucket_calls[ip]) >= 4
    /\ \A i \in 1..4 :
          /\ bucket_calls[ip][i].capacity = 3
          /\ bucket_calls[ip][i].refill_seconds = bucket_calls[ip][1].refill_seconds
    /\ bucket_calls[ip][1].refill_seconds > 0

ThreePassFourthDenied(ip) ==
    /\ \A i \in 1..3 : bucket_calls[ip][i].ok
    /\ ~bucket_calls[ip][4].ok

\* C6 (as claimed): with RATE_LIMIT_BURST=3 the first four requests of an
\* address, all inside one refill window: three pass, the fourth is denied.
C6_AsClaimed ==
    \A ip \in DOMAIN bucket_calls :
        /\ FourCallsWithBurst3(ip)
        /\ bucket_calls[ip][4].t - bucket_calls[ip][1].t
              < bucket_calls[ip][1].refill_seconds
        => ThreePassFourthDenied(ip)

\* C6 (amended): with RATE_LIMIT_BURST=3 the first four requests of an
\* address that reach the handler, all inside less than W/3 seconds (the time
\* that refills one token): three pass, the fourth is denied.
C6_BurstOfThree ==
    \A ip \in DOMAIN bucket_calls :
        /\ FourCallsWithBurst3(ip)
        /\ 3 * (bucket_calls[ip][4].t - bucket_calls[ip][1].t)
              < bucket_calls[ip][1].refill_seconds
        => ThreePassFourthDenied(ip)

C6_Witness ==
    \E ip \in DOMAIN bucket_calls :
        /\ FourCallsWithBurst3(ip)
        /\ bucket_calls[ip][1].refill_seconds = 4
        /\ bucket_calls[ip][4].t = bucket_calls[ip][1].t + 1
        /\ ~bucket_calls[ip][4].ok
        /\ last.status = 429 /\ last.by = "handler"

\* the requests of a key up to the i-th that lie in the window that ends at
\* the i-th
InWindow(calls, i) ==
    {j \in 1..i : calls[j].t >= calls[i].t - SlidingWindow(window_seconds)}

NoElapsedTime(ip) ==
    \A i \in 1..Len(bucket_calls[ip]) :
        /\ bucket_calls[ip][i].t = bucket_calls[ip][1].t
        /\ bucket_calls[ip][i].capacity = bucket_calls[ip][1].capacity

\* C8: after N calls of try_consume(1) on a full bucket of capacity C with no
\* elapsed time, max(0, C-N) tokens remain and min(N, C) calls were allowed.
C8_ConsumeWithoutRefill ==
    \A ip \in DOMAIN bucket_calls :
        LET calls == bucket_calls[ip]
            C == calls[1].capacity
            N == Len(calls)
        IN  NoElapsedTime(ip)
            => /\ _ip_buckets[ip].tokens = Max(0, C - N) * TokenScale
               /\ Cardinality({i \in 1..N : calls[i].ok}) = Min(N, C)

C8_Witness ==
    \E ip \in DOMAIN bucket_calls :
        /\ NoElapsedTime(ip)
        /\ Len(bucket_calls[ip]) = 4
        /\ bucket_calls[ip][1].capacity = 3
        /\ _ip_buckets[ip].tokens = 0

\* C9: every bucket holds between 0 and capacity tokens.
C9_TokensWithinCapacity ==
    \A ip \in DOMAIN _ip_buckets :
        /\ 0 <= _ip_buckets[ip].tokens
        /\ _ip_buckets[ip].tokens <= _ip_buckets[ip].capacity * TokenScale

C11_QueueIsBounded ==
    Len(_scheduled) + Len(_queue) <= max_queue_size

\* ------------------------------------------------------------------------
\* Properties of the webhook dispatcher (SpecHook)
\* ------------------------------------------------------------------------
\* the job has left the retry loop without a successful delivery
Exhausted(job) ==
    /\ job.pc \in {"persist", "done"}
    /\ \A i \in 1..Len(job.delivered) : ~job.delivered[i]

\* max_retries attempts, and waits of backoff * 2^attempt that grow strictly
RetriedWithBackoff(job) ==
    /\ Len(job.delivered) = max_retries
    /\ \A i \in 1..Len(job.sleeps) : job.sleeps[i] = backoff * 2 ^ (i - 1)
    /\ \A i \in 1..Len(job.sleeps) - 1 : job.sleeps[i] < job.sleeps[i + 1]
    /\ Len(job.sleeps) >= max_retries - 1

\* the rows of webhooks with this id
WebhookRows(id) == {i \in 1..Len(webhooks) : webhooks[i].id = id}

\* C12 (as claimed): a job whose every attempt failed has made exactly
\* max_retries attempts with strictly increasing waits, and once it has
\* ended last_failed_at is set on its webhook row.
C12_AsClaimed ==
    \A j \in 1..Len(jobs) :
        Exhausted(jobs[j])
        => /\ RetriedWithBackoff(jobs[j])
           /\ jobs[j].pc = "done"
              => \E i \in WebhookRows(jobs[j].id) :
                     webhooks[i].last_failed_at # None

\* after the loop a job makes no further attempt
NoAttemptAfterTheLast ==
    \A j \in 1..Len(jobs) :
        jobs[j].pc \in {"persist", "done"}
        => /\ jobs'[j].delivered = jobs[j].delivered
           /\ jobs'[j].pc \in {"persist", "done"}

\* the last step of an exhausted job sets last_failed_at on its row when the
\* session opens, the row still exists and no statement fails
PersistsWhenStorageWorks ==
    \A j \in 1..Len(jobs) :
        /\ jobs[j].pc = "persist" /\ jobs'[j].pc = "done"
        /\ try_get_session
        /\ WebhookRows(jobs[j].id) # {}
        /\ jobs'[j].persist \notin {"get_raises", "commit_raises"}
        => \A i \in WebhookRows(jobs[j].id) : webhooks'[i].last_failed_at # None

\* C12 (amended): a job whose every attempt failed has made exactly
\* max_retries attempts with waits backoff * 2^attempt, strictly increasing,
\* makes no attempt after the last one, and then sets last_failed_at on its
\* row provided the session opens, the row still exists and the update does
\* not fail.
C12_RetriesThenStops ==
    /\ [](\A j \in 1..Len(jobs) : Exhausted(jobs[j]) => RetriedWithBackoff(jobs[j]))
    /\ [][NoAttemptAfterTheLast /\ PersistsWhenStorageWorks]_vars

C12_Witness ==
    \E j \in 1..Len(jobs) :
        /\ jobs[j].pc = "done"
        /\ jobs[j].delivered = <<FALSE, FALSE, FALSE>>
        /\ jobs[j].sleeps = <<1, 2, 4>>
        /\ \E i \in WebhookRows(jobs[j].id) : webhooks[i].last_failed_at = "now()"

\* C13: a call of enqueue_event(user_id, event, payload) whose lookup succeeds
\* starts exactly one job for each row that is active, owned by user_id and
\* registered for the event, starts no other job, and returns their number
\* at once (the jobs have made no attempt yet); no later step of a job
\* changes what the caller got.
C13_OneJobPerMatchingWebhook ==
    [][LET match == {i \in 1..Len(webhooks) :
                        /\ webhooks[i].user_id = enqueued'.user_id
                        /\ webhooks[i].event = enqueued'.event
                        /\ webhooks[i].active = 1}
           started == (Len(jobs) + 1)..Len(jobs')
       IN  /\ nenq' = nenq + 1 /\ try_get_session /\ ~enqueued'.raised
              => /\ \A i \in match :
                       Cardinality({k \in started : jobs'[k].id = webhooks[i].id}) = 1
                 /\ \A k \in started :
                       /\ \E i \in match : jobs'[k].id = webhooks[i].id
                       /\ jobs'[k].event = enqueued'.event
                       /\ jobs'[k].delivered = <<>>
                 /\ enqueued'.ret = Cardinality(match)
                 /\ SubSeq(jobs', 1, Len(jobs)) = jobs
           /\ nenq' = nenq => enqueued' = enqueued]_vars

C13_Witness ==
    /\ enqueued.ret = 2
    /\ ~enqueued.raised
    /\ Len(jobs) = 2
    /\ \A j \in 1..2 : jobs[j].pc = "done" /\ jobs[j].delivered = <<FALSE, FALSE, FALSE>>
    /\ {jobs[1].id, jobs[2].id} = {1, 5}

\* C15: every response to GET|HEAD /r/{slug} - 302, 404, 422 and both 429s -
\* carries X-Request-ID: the request's own if it sent one, a generated id
\* otherwise.
C15_EveryResponseHasRequestId ==
    /\ nreq > 0
    /\ Handled(last.req)
    /\ last.status \in {302, 404, 422, 429}
    => /\ headers.x_request_id # None
       /\ last.req.x_request_id # None => headers.x_request_id = last.req.x_request_id

\* ------------------------------------------------------------------------
\* Properties of route creation (SpecCreate)
\* ------------------------------------------------------------------------
UniqueSlugs ==
    \A i, j \in 1..Len(routes) : i # j => routes[i].slug # routes[j].slug

\* at most one of the calls with one normalized slug has succeeded
AtMostOneSucceeds ==
    \A k1, k2 \in 1..Len(api_calls) :
        /\ k1 # k2
        /\ api_calls[k1].status = 201 /\ api_calls[k2].status = 201
        => api_calls[k1].slug # api_calls[k2].slug

\* call k ends in this step
Ends(k) ==
    /\ k \in 1..Len(api_calls')
    /\ api_calls'[k].pc = "done"
    /\ k \in 1..Len(api_calls) => api_calls[k].pc = "commit"

\* C14: no two rows of routes share a slug; of the calls of create_route
\* whose slugs normalize to one value at most one succeeds, whoever sends
\* them and however their steps interleave; a call that passes the checks of
\* its payload while a row with its slug exists is answered 409
\* 'slug_exists' and leaves routes unchanged.
C14_SlugIsUnique ==
    /\ [](UniqueSlugs /\ AtMostOneSucceeds)
    /\ [][\A k \in 1..Len(api_calls') :
             /\ Ends(k)
             /\ api_calls'[k].status \notin {422, 500}
             /\ RowsOf(Join(slugify(Strip(api_calls'[k].payload.slug)))) # {}
             => /\ api_calls'[k].status = 409
                /\ api_calls'[k].error = "slug_exists"
                /\ routes' = routes]_vars

C14_Witness ==
    /\ Len(api_calls) = 2
    /\ api_calls[1].payload.user_id # api_calls[2].payload.user_id
    /\ api_calls[1].payload.slug # api_calls[2].payload.slug
    /\ api_calls[1].status = 201
    /\ api_calls[2].status = 409 /\ api_calls[2].at = "commit"
    /\ Cardinality(RowsOf("promo")) = 1

\* the host of the stored target is a blocked domain or a subdomain of one
HostBlocked(url) ==
    LET host == Lower(hostname(urlparse(Strip(url)).netloc))
    IN  \E i \in 1..Len(get_blocked_domains) :
            /\ host # <<>>
            /\ \/ host = <<get_blocked_domains[i]>>
               \/ SubdomainOf(host[1], get_blocked_domains[i])

\* C16: with a block-list configured, a request that reaches the stored
\* target of a route whose host is blocked is answered 422 'invalid_url' and
\* is not redirected.
C16_BlockedDomainIsRefused ==
    [][LET req == last'.req
       IN  /\ IsRequest /\ Handled(req) /\ ~Denied(req)
           /\ try_get_session /\ req.fault = "none"
           /\ \E i \in RowsOf(req.path[2]) : HostBlocked(routes[i].target_url)
           => /\ last'.status = 422
              /\ last'.error = "invalid_url"]_vars

\* ------------------------------------------------------------------------
\* Properties of utils/enrich.py (SpecRef)
\* ------------------------------------------------------------------------
\* the value of the UTM parameter full in a query: its last non-blank
\* occurrence, the key compared without case; None if there is none
QueryValue(query, full) ==
    LET m == {i \in 1..Len(query) : LowerTok(query[i][1]) = full /\ query[i][2] # ""}
    IN  IF m = {} THEN None ELSE query[CHOOSE i \in m : \A j \in m : j <= i][2]

\* C17: for every UTM key with a non-empty value in the request's own query
\* the result of parse_ref holds that value, whatever the referrer says; the
\* referrer's value is used only for keys absent from the request's query.
C17_RequestQueryWins ==
    applied.fn = "parse_ref"
    => \A f \in 1..Len(_UTM_FIELDS) :
           LET full == _UTM_FIELDS[f][1]
               short == _UTM_FIELDS[f][2]
               own == QueryValue(applied.url_query, full)
               ref == IF applied.ref_header.none THEN None
                      ELSE QueryValue(applied.ref_header.query, full)
           IN  applied.result.utm[short] = (IF own # None THEN own ELSE ref)

C17_Witness ==
    /\ applied.fn = "parse_ref"
    /\ applied.ref_header = Referer
    /\ applied.url_query = << <<"utm_source", "campaign">>, <<"utm_medium", "email">> >>
    /\ applied.result.utm["source"] = "campaign"
    /\ applied.result.host = <<"example.com">>

\* C18: decode_ref(serialize_ref(host, utm)) gives the lower-cased host and,
\* for each UTM key, the value if it is non-empty and None otherwise;
\* serializing the decoded result gives the same string again.
C18_RoundTrip ==
    applied.fn = "round_trip"
    => /\ applied.decoded.host = Lower(applied.host)
       /\ \A k \in UtmKeys :
             applied.decoded.utm[k] =
                (IF applied.utm[k] \in {None, ""} THEN None ELSE applied.utm[k])
       /\ applied.again = applied.value

C18_Witness ==
    /\ applied.fn = "round_trip"
    /\ applied.host = <<"Example.COM">>
    /\ applied.utm["source"] = "a&b" /\ applied.utm["medium"] = "x=y"
    /\ applied.value = <<"example.com", "?", "utm_source", "=", "a", "%26", "b", "&",
                         "utm_medium", "=", "x", "%3D", "y">>
    /\ applied.decoded.host = <<"example.com">>
    /\ applied.decoded.utm["source"] = "a&b"

\* ------------------------------------------------------------------------
\* Independence of clients (SpecRate)
\* ------------------------------------------------------------------------
\* the client a request is keyed to: the first X-Forwarded-For entry, else
\* the peer address
ClientKey(req) == IF XffParts(req) # <<>> THEN XffParts(req)[1] ELSE req.client

ClientIps == {Peer, "1.2.3.4"}

\* entry k of the mapping f is the same before and after the step
SameEntry(f, g, k) ==
    IF k \in DOMAIN f THEN k \in DOMAIN g /\ g[k] = f[k] ELSE k \notin DOMAIN g

\* a request of a client other than b leaves b's token bucket and every
\* sliding window of b as they were
OtherClientsUntouched ==
    \A b \in ClientIps :
        (nreq' = nreq + 1 /\ ClientKey(last'.req) # b)
        => /\ SameEntry(_ip_buckets, _ip_buckets', b)
           /\ \A i \in 1..Len(path_prefixes) :
                 SameEntry(_buckets, _buckets', <<b, path_prefixes[i]>>)

\* a rate-limited request is never the first request of its client
LimitedByOwnRequests ==
    last.status = 429 => Len(mw_calls[<<ClientKey(last.req), "/r/">>]) >= 2

\* C19: a request keyed to IP A (first X-Forwarded-For entry, else peer
\* address) leaves the token bucket and the sliding windows of every other
\* IP B unchanged, and a request is rate-limited only after earlier requests
\* of its own client.
C19_ClientsAreIndependent == []LimitedByOwnRequests /\ [][OtherClientsUntouched]_vars

\* one client has been rate-limited and the first request of the other one
\* has just been let through
C19_Witness ==
    /\ <<"1.2.3.4", "/r/">> \in DOMAIN mw_calls
    /\ \E i \in 1..Len(mw_calls[<<"1.2.3.4", "/r/">>]) :
          mw_calls[<<"1.2.3.4", "/r/">>][i].status = 429
    /\ ClientKey(last.req) = Peer
    /\ last.status = 404
    /\ Len(mw_calls[<<Peer, "/r/">>]) = 1
    /\ Peer \in DOMAIN _ip_buckets /\ "1.2.3.4" \in DOMAIN _ip_buckets

\* ------------------------------------------------------------------------
\* Order of the steps of one request (Spec)
\* ------------------------------------------------------------------------
\* the position of a step in the order RECEIVED (0), RATE_CHECKED (1, 2),
\* RESOLVED (3), RECORDED (4, 5), VALIDATED (6), REDIRECTED (7)
StepRank(step) ==
    CASE step \in {"window_allow", "window_deny"} -> 1
      [] step \in {"bucket_allow", "bucket_deny"} -> 2
      [] step \in {"select", "select_raises", "no_session"} -> 3
      [] step = "add" -> 4
      [] step \in {"commit", "commit_raises"} -> 5
      [] step \in {"validate", "validate_raises"} -> 6
      [] step = "redirect" -> 7
      [] OTHER -> 0

FailingSteps ==
    {"window_deny", "bucket_deny", "no_session", "select_raises", "commit_raises",
     "validate_raises"}

\* the statement as it is claimed: the click is recorded only after the
\* target has been validated
C20_AsClaimed ==
    \A i \in 1..Len(last.trace) :
        last.trace[i] = "commit" => \E j \in 1..(i - 1) : last.trace[j] = "validate"

\* C20: each /r/{slug} request passes through the steps in the order
\* RECEIVED, RATE_CHECKED, RESOLVED, RECORDED, VALIDATED, REDIRECTED and
\* leaves at the first failing step; the target URL is validated after the
\* click has been recorded, so a request reaches VALIDATED (or fails with
\* INVALID_TARGET) only after it has reached RECORDED, and the click of a
\* request answered 422 invalid_url is in route_hits.
C20_RecordedBeforeValidated ==
    /\ \A i \in 1..Len(last.trace) :
          /\ i > 1 => StepRank(last.trace[i - 1]) < StepRank(last.trace[i])
          /\ last.trace[i] \in FailingSteps => i = Len(last.trace)
          /\ StepRank(last.trace[i]) = 6
             => \E j \in 1..(i - 1) : last.trace[j] = "commit"
    /\ last.error = "invalid_url"
       => \E h \in 1..Len(route_hits) :
             route_hits[h].route_id = routes[RouteBySlug(last.req.path[2])].id

C20_Witness ==
    /\ last.status = 422
    /\ last.error = "invalid_url"
    /\ last.req.path[2] = "js"
    /\ last.trace = <<"window_allow", "bucket_allow", "select", "add", "commit",
                      "validate_raises">>
    /\ Len(route_hits) = 1
    /\ route_hits[1].route_id = 2

\* ------------------------------------------------------------------------
\* A stored target that fails validation (Spec)
\* ------------------------------------------------------------------------
\* the last request resolved its slug to a row whose target_url fails
\* validation, and its click was committed
ResolvedToInvalidTarget ==
    LET rid == RouteBySlug(last.req.path[2])
    IN  /\ \E i \in 1..Len(last.trace) : last.trace[i] = "commit"
        /\ rid # 0
        /\ validate_target_url(routes[rid].target_url,
                               _get_allowed_target_schemes) = Invalid

SubmitAccepted == nsub' = nsub + 1 /\ submitted'.ret

\* an accepted submit leaves a fresh record with status 'queued' under its
\* task_id
AcceptedIsQueued ==
    SubmitAccepted
    => /\ submitted'.task_id \in DOMAIN _tasks'
       /\ _tasks'[submitted'.task_id] = Len(records) + 1
       /\ records'[_tasks'[submitted'.task_id]] =
             [id |-> submitted'.task_id, kind |-> "hash", status |-> "queued",
              error |-> None]

\* an id that has a record keeps having one
NeverEvicted == \A id \in TaskIds : id \in DOMAIN _tasks => id \in DOMAIN _tasks'

\* status(id) is None only while no submit for id has been accepted
NoneOnlyIfNeverAccepted ==
    \A id \in TaskIds :
        status(id).id = None => \A i \in 1..Len(records) : records[i].id # id

\* C22: a submit that returns True has created a TaskRecord with status
\* 'queued' for its task_id; from then on status(task_id) never returns None,
\* and status(id) returns None only for ids that were never accepted.
C22_AcceptedHasRecord ==
    []NoneOnlyIfNeverAccepted /\ [][AcceptedIsQueued /\ NeverEvicted]_vars

\* one job has finished, another has just been accepted, and both have a
\* record
C22_Witness ==
    /\ submitted.ret
    /\ submitted.task_id = "hash:release:1"
    /\ status("hash:release:1").status = "queued"
    /\ status("webhook:1").status = "done"
    /\ consumer.pc = "get"

\* ------------------------------------------------------------------------
\* The consumer of the task queue (SpecQueue)
\* ------------------------------------------------------------------------
\* the consumer is in the job function (or awaiting its coroutine)
Invoking == consumer.pc \in {"call", "await"}

\* the step dequeues a job, which the consumer will invoke next
Dequeued == consumer.pc = "get" /\ consumer'.pc = "call"

\* the step ends the invocation of the job function
Finished == Invoking /\ consumer'.pc = "get"

RunningWhileInvoked ==
    Invoking => /\ records[consumer.record].status = "running"
                /\ records[consumer.record].id = records[consumer.created].id
                /\ consumer.record >= consumer.created

\* the end of the invocation sets that record to 'done' or to 'error' with
\* the message of the exception
OutcomeIsRecorded ==
    Finished
    => records' = [records EXCEPT ![consumer.record] =
                      IF consumer.func \in {"returns", "coroutine"}
                      THEN [id |-> @.id, kind |-> @.kind, status |-> "done",
                            error |-> @.error]
                      ELSE [id |-> @.id, kind |-> @.kind, status |-> "error",
                            error |-> "str(exc)"]]

\* the jobs are dequeued in the order of their submits, each one once
InvokedOnce ==
    Dequeued => /\ consumer'.created > consumer.created
                /\ consumer'.created <= Len(records)

AtMostOneRunning ==
    Cardinality({i \in 1..Len(records) : records[i].status = "running"}) <= 1

\* the job that becomes 'running' is the one accepted next after the job
\* that ran before it, and that job's record has reached 'done' or 'error'
NextInSubmissionOrder ==
    Dequeued
    => /\ consumer'.created = consumer.created + 1
       /\ consumer.created > 0 => records[consumer.record].status \in {"done", "error"}
       /\ records'[consumer'.record].status = "running"

\* C24: jobs run one at a time in submission order: a job accepted before
\* another becomes 'running' before it, the later one becomes 'running' only
\* after the earlier one has reached 'done' or 'error', and at no time do two
\* TaskRecords have status 'running'.
C24_FifoSingleFlight == []AtMostOneRunning /\ [][NextInSubmissionOrder]_vars

\* the first of three accepted jobs is done, the second is running, the
\* third is waiting
C24_Witness ==
    /\ Len(records) = 3
    /\ records[1].id = "webhook:1" /\ records[1].status = "done"
    /\ records[2].id = "hash:release:1" /\ records[2].status = "running"
    /\ records[3].status = "queued"
    /\ consumer.created = 2

\* ------------------------------------------------------------------------
\* Progress of the task queue (SpecQueueLive)
\* ------------------------------------------------------------------------
\* the job whose submit created record i has been invoked and has ended
JobFinished(i) ==
    \/ consumer.created > i
    \/ consumer.created = i /\ consumer.pc = "get"

\* C25: a job that raises does not stop the worker: provided every job
\* function eventually returns or raises, every accepted submission is
\* eventually run to its end and the status of its task_id eventually is
\* 'done' or 'error', also behind a job that raised.
C25_EveryAcceptedJobEnds ==
    /\ \A i \in 1..MaxSubmits : (Len(records) >= i) ~> JobFinished(i)
    /\ \A id \in TaskIds :
          (id \in DOMAIN _tasks) ~> (status(id).status \in {"done", "error"})

\* the first job raised and the job queued behind it is done
C25_Witness ==
    /\ Len(records) >= 2
    /\ records[1].status = "error"
    /\ records[2].status = "done"
    /\ records[1].id # records[2].id
    /\ JobFinished(2)
    /\ _queue = <<>> /\ _scheduled = <<>>

\* ------------------------------------------------------------------------
\* A successful delivery (SpecHook)
\* ------------------------------------------------------------------------
\* the endpoint answered with a status in [200,300)
Answered2xx(answer) ==
    ~answer.raised /\ answer.status_code \in 200..299

\* the last attempt of the job so far succeeded
Succeeded(job) == job.delivered # <<>> /\ job.delivered[Len(job.delivered)]

\* an attempt succeeds exactly when the answer is in [200,300); only the last
\* attempt of a job can be a success; a job that succeeded is over and has
\* not touched last_failed_at; a job makes at most max_retries attempts and
\* at least one before it ends
StopsAtFirstSuccess(job) ==
    /\ job.pc \in {"sleep", "done"} /\ job.persist = "not_tried"
       => (Succeeded(job) <=> Answered2xx(job.answer))
    /\ \A i \in 1..(Len(job.delivered) - 1) : ~job.delivered[i]
    /\ Succeeded(job) => job.pc = "done" /\ job.persist = "not_tried"
    /\ Len(job.delivered) <= max_retries
    /\ job.pc \in {"persist", "done"} => Len(job.delivered) >= 1

\* a job that has ended makes no further step
EndedJobsStay ==
    \A j \in 1..Len(jobs) : jobs[j].pc = "done" => jobs'[j] = jobs[j]

\* C26: a delivery attempt succeeds exactly when the endpoint answers with a
\* status in [200,300); after the first successful attempt the job makes no
\* further attempt and does not set last_failed_at, so a job makes between 1
\* and max_retries attempts and stops at the first success.
C26_SuccessStopsRetries ==
    /\ [](\A j \in 1..Len(jobs) : StopsAtFirstSuccess(jobs[j]))
    /\ [][EndedJobsStay]_vars

\* a job whose second attempt was answered 299 after a 300
C26_Witness ==
    \E j \in 1..Len(jobs) :
        /\ jobs[j].delivered = <<FALSE, TRUE>>
        /\ jobs[j].answer = Answer(FALSE, 299)
        /\ jobs[j].sleeps = <<1>>
        /\ jobs[j].pc = "done"
        /\ \A i \in 1..Len(webhooks) :
              webhooks[i].id = jobs[j].id => webhooks[i].last_failed_at = None

\* ------------------------------------------------------------------------
\* Concurrent requests on one token bucket (SpecRace)
\* ------------------------------------------------------------------------
\* the threads that have finished try_consume for this ip
DoneFor(ip) == {t \in 1..MaxThreads : threads[t].pc = "done" /\ threads[t].ip = ip}

\* C27: for concurrent requests of one IP no update is lost: with C tokens
\* available and no elapsed time at most C of them are allowed, and the
\* requests of one IP share one bucket.
C27_NoLostUpdate ==
    \A ip \in ClientIps :
        /\ Cardinality({t \in DoneFor(ip) : threads[t].ok = "allowed"}) <= env.burst
        /\ \A t, u \in DoneFor(ip) : threads[t].bucket = threads[u].bucket

\* ------------------------------------------------------------------------
\* The status reported for a task_id (SpecQueue)
\* ------------------------------------------------------------------------
\* the position of a status in queued -> running -> (done | error)
StatusRank(st) ==
    CASE st = "queued" -> 1
      [] st = "running" -> 2
      [] st \in {"done", "error"} -> 3
      [] OTHER -> 0

\* status(task_id) after the step
status_next(task_id) ==
    IF task_id \in DOMAIN _tasks' THEN records'[_tasks'[task_id]]
    ELSE TaskRecord(None, None)

\* C28: the status that status(task_id) reports only moves forward along
\* queued -> running -> (done | error), for any sequence of submit calls,
\* also when a task_id is accepted a second time.
C28_StatusOnlyForward ==
    [][\A id \in TaskIds :
          /\ StatusRank(status_next(id).status) >= StatusRank(status(id).status)
          /\ StatusRank(status(id).status) = 3
             => status_next(id).status = status(id).status]_vars

\* ------------------------------------------------------------------------
\* Rejected requests in the sliding window (SpecRate)
\* ------------------------------------------------------------------------
\* the requests of the key before the i-th that lie in the window that ends
\* at the i-th, admitted or rejected
EarlierInWindow(calls, i) == InWindow(calls, i) \ {i}

\* the i-th request of the key comes after a silence of at least / more than
\* d seconds
SilentAtLeast(calls, i, d) == i > 1 /\ calls[i].t - calls[i - 1].t >= d
SilentMoreThan(calls, i, d) == i > 1 /\ calls[i].t - calls[i - 1].t > d

\* the statement as it is claimed: a client that stays silent for W seconds
\* is admitted on its next request
C29_AsClaimed ==
    \A key \in DOMAIN mw_calls :
        \A i \in 1..Len(mw_calls[key]) :
            SilentAtLeast(mw_calls[key], i, SlidingWindow(window_seconds))
            => mw_calls[key][i].admitted

\* C29: a rejected request is recorded in the window of its key like an
\* admitted one; a key is admitted only when fewer than L of its earlier
\* requests (admitted or rejected) lie in the trailing window, requests that
\* are exactly W seconds old included; so a client that stays silent for
\* more than W seconds is admitted on its next request, and a client with L
\* or more earlier requests in every trailing window is never admitted.
C29_RejectedAreCounted ==
    \A key \in DOMAIN mw_calls :
        LET calls == mw_calls[key]
            n == Len(calls)
            W == SlidingWindow(window_seconds)
        IN  /\ Len(_buckets[key]) = Cardinality(InWindow(calls, n))
            /\ \A e \in 1..Len(_buckets[key]) :
                  _buckets[key][e] = calls[n - Len(_buckets[key]) + e].t
            /\ \A i \in 1..n :
                  /\ calls[i].admitted
                        => Cardinality(EarlierInWindow(calls, i)) < limit_per_window
                  /\ Cardinality(EarlierInWindow(calls, i)) >= limit_per_window
                        => ~calls[i].admitted
                  /\ SilentMoreThan(calls, i, W) => calls[i].admitted

\* a key that was rejected and then, after more than W seconds of silence,
\* admitted
C29_Witness ==
    \E key \in DOMAIN mw_calls :
        /\ Len(mw_calls[key]) = 3
        /\ mw_calls[key][1].admitted
        /\ ~mw_calls[key][2].admitted
        /\ Len(_buckets[key]) = 1
        /\ SilentMoreThan(mw_calls[key], 3, SlidingWindow(window_seconds))
        /\ mw_calls[key][3].admitted

\* ------------------------------------------------------------------------
\* A denied try_consume (SpecRate)
\* ------------------------------------------------------------------------
\* the step is a request that the token bucket of its client denied
DeniedByBucket ==
    /\ nreq' = nreq + 1
    /\ \E i \in 1..Len(last'.trace) : last'.trace[i] = "bucket_deny"

\* a denied try_consume leaves in the bucket the tokens it had plus the
\* refill for the elapsed time, capped at the capacity
DenialDeductsNothing ==
    DeniedByBucket
    => LET ip == ClientKey(last'.req)
           b == _ip_buckets[ip]
           elapsed == now - b.last_refill
       IN  /\ ip \in DOMAIN _ip_buckets
           /\ _ip_buckets'[ip].tokens =
                 (IF env.window > 0 /\ elapsed > 0
                  THEN Min(env.burst * TokenScale,
                           b.tokens + (env.burst * TokenScale * elapsed) \div env.window)
                  ELSE b.tokens)

\* the last allowed call on the bucket before call i (0 if there is none)
LastAllowedBefore(calls, i) ==
    LET m == {j \in 1..(i - 1) : calls[j].ok}
    IN  IF m = {} THEN 0 ELSE CHOOSE j \in m : \A k \in m : k <= j

\* the calls after a up to i were all made with capacity C > 0 and refill
\* window W > 0
SameConfigSince(calls, a, i) ==
    \A j \in (a + 1)..i :
        /\ calls[j].capacity = calls[i].capacity
        /\ calls[j].refill_seconds = calls[i].refill_seconds
        /\ calls[j].capacity > 0
        /\ calls[j].refill_seconds > 0

\* a call made W/C seconds or more after the last allowed one is allowed,
\* whatever was denied in between
AllowedAfterRefill ==
    \A ip \in DOMAIN bucket_calls :
        LET calls == bucket_calls[ip]
        IN  \A i \in 1..Len(calls) :
                LET a == LastAllowedBefore(calls, i)
                IN  (/\ a > 0
                     /\ SameConfigSince(calls, a, i)
                     /\ (calls[i].t - calls[a].t) * calls[i].capacity
                           >= calls[i].refill_seconds)
                    => calls[i].ok

\* C30: a denied try_consume deducts no token and loses no refill progress:
\* with capacity C > 0 and refill window W > 0 a client is allowed again once
\* W/C seconds have elapsed since its last allowed request, however many
\* denied requests it sent in between.
C30_DenialKeepsRefill == []AllowedAfterRefill /\ [][DenialDeductsNothing]_vars

\* allowed, then denied with three quarters of a token refilled, then
\* allowed 2 >= W/C = 4/3 seconds after the allowed request
C30_Witness ==
    \E ip \in DOMAIN bucket_calls :
        /\ Len(bucket_calls[ip]) = 3
        /\ bucket_calls[ip][1].ok /\ bucket_calls[ip][1].t = 0
        /\ ~bucket_calls[ip][2].ok /\ bucket_calls[ip][2].t = 1
        /\ bucket_calls[ip][3].ok /\ bucket_calls[ip][3].t = 2
        /\ bucket_calls[ip][3].capacity = 3 /\ bucket_calls[ip][3].refill_seconds = 4
        /\ SameConfigSince(bucket_calls[ip], 1, 3)
        /\ _ip_buckets[ip].tokens = 2

====
